---- MODULE Spec2Model ----
(***************************************************************************)
(* Birding weather dashboard: the birding-conditions scoring engine of     *)
(* src/src/config/birdingConditions.js.                                    *)
(*                                                                         *)
(* The scorers and analyzers are pure functions.  Each is an operator      *)
(* here, computed branch by branch as the JavaScript computes it.  A       *)
(* behaviour of Spec is one call: Init draws the function and its          *)
(* arguments, the function's action applies it and stores what it returns. *)
(*                                                                         *)
(* Numbers.  Scores, wind directions, speeds, temperatures, humidity,      *)
(* precipitation and visibility (meters) are integers.  A visibility in    *)
(* miles, visibility / 1609.34, is compared with a whole number of miles   *)
(* by cross-multiplication.  Sample times are milliseconds;                *)
(* the 3-hour pressure change is the exact quotient [num, den], den > 0.   *)
(* The sample times are multiples of a quarter of an hour and pressures    *)
(* whole hPa: on these values IEEE double arithmetic classifies the change *)
(* exactly as the exact quotient does.  The samples of a history are       *)
(* evenly spaced, as the hourly series of the weather API are.             *)
(***************************************************************************)
EXTENDS Integers, Sequences, FiniteSets, TLC

\* one call of a function: its name, arguments, result and position
VARIABLES fn, args, ret, pc
\* the running application: the store, the weather requests in flight, the
\* location changes waiting for a place name, the background GPS update, the
\* score widgets, the refresh timer, and the choice the latest
\* calculateBirdingConditions made
VARIABLES store, inflight, geocoding, gps, ui, timer, lastCalc

callVars == <<fn, args, ret, pc>>
appVars == <<store, inflight, geocoding, gps, ui, timer, lastCalc>>
vars == <<fn, args, ret, pc, store, inflight, geocoding, gps, ui, timer, lastCalc>>

(***************************************************************************)
(* Bounds of the model                                                     *)
(***************************************************************************)
\* most weather requests in flight at a time
MaxInflight == 2
\* most location changes waiting for a place name at a time
MaxGeocoding == 1
\* longest pressure history drawn
MaxHist == 3
\* longest temperature history drawn (the detector reads the last 7)
MaxTempHist == 8
\* histories up to this length draw every sample from the full value set
MaxRichHist == 3

(***************************************************************************)
(* JavaScript values                                                       *)
(***************************************************************************)
\* null, as returned by scoreSongbirdMigration
Null == [null |-> TRUE]
\* a history argument that is null or undefined: no array at all.  (A value
\* that TLC can compare with the arrays, which are sequences of records.)
NoHistory == <<Null>>
\* the result slot before the call has returned
NoResult == [pending |-> TRUE]
\* the value of the application's variables while single calls are studied
NotStarted == [notStarted |-> TRUE]
\* the application is not running
AppIdle ==
    /\ store = NotStarted
    /\ inflight = NotStarted
    /\ geocoding = NotStarted
    /\ gps = NotStarted
    /\ ui = NotStarted
    /\ timer = NotStarted
    /\ lastCalc = NotStarted
\* no single call is studied
CallIdle ==
    /\ fn = "none"
    /\ args = Null
    /\ ret = NoResult
    /\ pc = "idle"

Max(a, b) == IF a >= b THEN a ELSE b
Min(a, b) == IF a <= b THEN a ELSE b

\* mutant: the upper limit of the clamp is missing
Clamp_NoUpper(score) == Max(0, score)

\* Math.max(0, Math.min(100, score))
Clamp(score) == Max(0, Min(100, score))

\* mutant: the meters are divided by 1000, not by 1609.34
MilesGT_Kilometers(visibility, miles) == visibility > miles * 1000

\* visibility / 1609.34 compared with a whole number of miles
MilesGT(visibility, miles) == visibility * 100 > miles * 160934
MilesGE(visibility, miles) == visibility * 100 >= miles * 160934
MilesLT(visibility, miles) == visibility * 100 < miles * 160934

(***************************************************************************)
(* Helper functions                                                        *)
(***************************************************************************)
\* mutant: the wrap-around branch is missing
isWindInRange_NoWrap(dir, min, max) == dir >= min /\ dir <= max

isWindInRange(dir, min, max) ==
    IF min <= max
    THEN dir >= min /\ dir <= max
    ELSE dir >= min \/ dir <= max

getScoreRating(score) ==
    IF score >= 80 THEN "Excellent"
    ELSE IF score >= 65 THEN "Good"
    ELSE IF score >= 50 THEN "Fair"
    ELSE IF score >= 35 THEN "Poor"
    ELSE "Unfavorable"

getHawkWatchDetails_NoFallbackMessage(windDir, windSpeed, visibility) ==
    LET d1 == IF isWindInRange(windDir, 290, 360) \/ isWindInRange(windDir, 0, 45)
              THEN <<"Ideal NW-NE wind direction">>
              ELSE IF isWindInRange(windDir, 250, 70)
              THEN <<"Favorable wind direction">>
              ELSE <<>>
        d2 == IF windSpeed >= 10 /\ windSpeed <= 25
              THEN <<"Good wind speed (" \o ToString(windSpeed) \o " mph)">>
              ELSE IF windSpeed > 35 THEN <<"Winds may be too strong">>
              ELSE IF windSpeed < 5 THEN <<"Winds too light for good lift">>
              ELSE <<>>
        d3 == IF MilesGT(visibility, 10) THEN <<"Excellent visibility">>
              ELSE IF MilesLT(visibility, 2) THEN <<"Poor visibility">>
              ELSE <<>>
    IN  d1 \o d2 \o d3

getHawkWatchDetails(windDir, windSpeed, visibility) ==
    LET d1 == IF isWindInRange(windDir, 290, 360) \/ isWindInRange(windDir, 0, 45)
              THEN <<"Ideal NW-NE wind direction">>
              ELSE IF isWindInRange(windDir, 250, 70)
              THEN <<"Favorable wind direction">>
              ELSE <<"Wind direction not optimal">>
        d2 == IF windSpeed >= 10 /\ windSpeed <= 25
              THEN <<"Good wind speed (" \o ToString(windSpeed) \o " mph)">>
              ELSE IF windSpeed > 35 THEN <<"Winds may be too strong">>
              ELSE IF windSpeed < 5 THEN <<"Winds too light for good lift">>
              ELSE <<>>
        d3 == IF MilesGT(visibility, 10) THEN <<"Excellent visibility">>
              ELSE IF MilesLT(visibility, 2) THEN <<"Poor visibility">>
              ELSE <<>>
    IN  d1 \o d2 \o d3

getSeabirdDetails(windDir, windSpeed, isOnshore) ==
    LET d1 == IF isOnshore THEN <<"Onshore winds pushing birds closer">>
              ELSE <<"Offshore winds - birds staying out">>
        d2 == IF windSpeed >= 25 THEN <<"Storm-force winds excellent for pelagics">>
              ELSE IF windSpeed >= 15 THEN <<"Good wind speed for seabirding">>
              ELSE IF windSpeed < 10 THEN <<"Light winds - birds likely offshore">>
              ELSE <<>>
    IN  d1 \o d2

(***************************************************************************)
(* Hawk watch                                                              *)
(***************************************************************************)
\* mutant: the ideal band excludes 25 mph
hawkWindSpeedAdj_Below25(windSpeed) ==
    IF windSpeed >= 10 /\ windSpeed < 25 THEN 20
    ELSE IF windSpeed >= 5 /\ windSpeed < 10 THEN 10
    ELSE IF windSpeed > 25 /\ windSpeed <= 35 THEN 5
    ELSE IF windSpeed > 35 THEN -20
    ELSE IF windSpeed < 5 THEN -10
    ELSE 0

\* lines 31-41: the wind speed adjustment
hawkWindSpeedAdj(windSpeed) ==
    IF windSpeed >= 10 /\ windSpeed <= 25 THEN 20
    ELSE IF windSpeed >= 5 /\ windSpeed < 10 THEN 10
    ELSE IF windSpeed > 25 /\ windSpeed <= 35 THEN 5
    ELSE IF windSpeed > 35 THEN -20
    ELSE IF windSpeed < 5 THEN -10
    ELSE 0

\* mutant: the favorable arc starts at W (270), as the comment says, not at 250
hawkDirectionAdj_From270(windDir) ==
    LET favorableDir == isWindInRange(windDir, 270, 70)
        idealDir == isWindInRange(windDir, 290, 360) \/ isWindInRange(windDir, 0, 45)
    IN  IF idealDir THEN 20
        ELSE IF favorableDir THEN 10
        ELSE -15

\* lines 19-28: the wind direction adjustment
hawkDirectionAdj(windDir) ==
    LET favorableDir == isWindInRange(windDir, 250, 70)
        idealDir == isWindInRange(windDir, 290, 360) \/ isWindInRange(windDir, 0, 45)
    IN  IF idealDir THEN 20
        ELSE IF favorableDir THEN 10
        ELSE -15

scoreHawkWatch(windDir, windSpeed, visibility) ==
    LET s0 == 50
        s1 == s0 + hawkDirectionAdj(windDir)
        s2 == s1 + hawkWindSpeedAdj(windSpeed)
        s3 == IF MilesGT(visibility, 10) THEN s2 + 10
              ELSE IF MilesGE(visibility, 5) THEN s2 + 5
              ELSE IF MilesLT(visibility, 2) THEN s2 - 20
              ELSE s2
        score == Clamp(s3)
    IN  [score |-> score,
         rating |-> getScoreRating(score),
         details |-> getHawkWatchDetails(windDir, windSpeed, visibility)]

(***************************************************************************)
(* Seabird / coastal                                                       *)
(***************************************************************************)
\* mutant: the west arc ends at NW (315) instead of N (360)
onshoreRanges_WestTo315 ==
    [east |-> [min |-> 45, max |-> 180],
     west |-> [min |-> 225, max |-> 315],
     gulf |-> [min |-> 135, max |-> 270]]

\* lines 75-79: the onshore arc of each coast orientation
onshoreRanges ==
    [east |-> [min |-> 45, max |-> 180],
     west |-> [min |-> 225, max |-> 360],
     gulf |-> [min |-> 135, max |-> 270]]

\* coastOrientation = 'east' by default; onshoreRanges[coastOrientation] || onshoreRanges.east
onshoreRange(coastOrientation) ==
    IF coastOrientation \in DOMAIN onshoreRanges
    THEN onshoreRanges[coastOrientation]
    ELSE onshoreRanges["east"]

scoreSeabirding(windDir, windSpeed, precipitation, coastOrientation) ==
    LET range == onshoreRange(coastOrientation)
        isOnshore == isWindInRange(windDir, range.min, range.max)
        s0 == 40
        s1 == IF isOnshore THEN s0 + 25 ELSE s0 - 10
        s2 == IF windSpeed >= 25 THEN s1 + 25
              ELSE IF windSpeed >= 20 THEN s1 + 20
              ELSE IF windSpeed >= 15 THEN s1 + 15
              ELSE IF windSpeed >= 10 THEN s1 + 5
              ELSE s1 - 10
        s3 == IF precipitation > 5 THEN s2 + 10
              ELSE IF precipitation > 0 THEN s2 + 5
              ELSE s2
        score == Clamp(s3)
    IN  [score |-> score,
         rating |-> getScoreRating(score),
         details |-> getSeabirdDetails(windDir, windSpeed, isOnshore)]

(***************************************************************************)
(* Songbird migration (spring / fall only)                                 *)
(***************************************************************************)
\* mutant: the rapid fall is tested as 'falling_fast' (underscore), so that
\* 'falling-fast' is scored as steady
migrationInSeason_Underscore(windDir, pressureTrend, season) ==
    LET favorableDir == IF season = "spring"
                        THEN isWindInRange(windDir, 135, 270)
                        ELSE isWindInRange(windDir, 270, 45)
        s0 == 40
        s1 == IF favorableDir THEN s0 + 20 ELSE s0 - 5
        d1 == IF favorableDir THEN <<"Favorable winds for migration">>
              ELSE <<"Headwinds slowing migration">>
        s2 == IF pressureTrend = "rising-fast" THEN s1 + 20
              ELSE IF pressureTrend = "rising" THEN s1 + 15
              ELSE IF pressureTrend = "falling" THEN s1 + 5
              ELSE IF pressureTrend = "falling_fast" THEN s1 - 5
              ELSE s1 + 10
        d2 == IF pressureTrend = "rising-fast" THEN <<"Post-front - migrants concentrated">>
              ELSE IF pressureTrend = "rising" THEN <<"Rising pressure - birds moving">>
              ELSE IF pressureTrend = "falling" THEN <<"Pre-front conditions">>
              ELSE IF pressureTrend = "falling_fast" THEN <<"Storm approaching - birds grounded">>
              ELSE <<"Steady conditions">>
        score == Clamp(s2)
    IN  [score |-> score,
         rating |-> getScoreRating(score),
         details |-> d1 \o d2]

\* lines 133-174: the result in migration season
migrationInSeason(windDir, pressureTrend, season) ==
    LET favorableDir == IF season = "spring"
                        THEN isWindInRange(windDir, 135, 270)
                        ELSE isWindInRange(windDir, 270, 45)
        s0 == 40
        s1 == IF favorableDir THEN s0 + 20 ELSE s0 - 5
        d1 == IF favorableDir THEN <<"Favorable winds for migration">>
              ELSE <<"Headwinds slowing migration">>
        s2 == IF pressureTrend = "rising-fast" THEN s1 + 20
              ELSE IF pressureTrend = "rising" THEN s1 + 15
              ELSE IF pressureTrend = "falling" THEN s1 + 5
              ELSE IF pressureTrend = "falling-fast" THEN s1 - 5
              ELSE s1 + 10
        d2 == IF pressureTrend = "rising-fast" THEN <<"Post-front - migrants concentrated">>
              ELSE IF pressureTrend = "rising" THEN <<"Rising pressure - birds moving">>
              ELSE IF pressureTrend = "falling" THEN <<"Pre-front conditions">>
              ELSE IF pressureTrend = "falling-fast" THEN <<"Storm approaching - birds grounded">>
              ELSE <<"Steady conditions">>
        score == Clamp(s2)
    IN  [score |-> score,
         rating |-> getScoreRating(score),
         details |-> d1 \o d2]

\* mutant: out of season gives a result with score 0 instead of null
scoreSongbirdMigration_ZeroOutOfSeason(windDir, pressureTrend, season) ==
    IF season # "spring" /\ season # "fall"
    THEN [score |-> 0, rating |-> getScoreRating(0), details |-> <<>>]
    ELSE migrationInSeason(windDir, pressureTrend, season)

scoreSongbirdMigration(windDir, pressureTrend, season) ==
    IF season # "spring" /\ season # "fall"
    THEN Null
    ELSE migrationInSeason(windDir, pressureTrend, season)

(***************************************************************************)
(* Songbird activity (year-round)                                          *)
(***************************************************************************)
\* mutant: "temp > 75" is tested before "temp > 85", which then never matches
activityTempAdj_WarmFirst(temp) ==
    IF temp >= 50 /\ temp <= 75 THEN 15
    ELSE IF temp >= 40 /\ temp < 50 THEN 10
    ELSE IF temp < 40 THEN 5
    ELSE IF temp > 75 THEN 5
    ELSE IF temp > 85 THEN -10
    ELSE 0

\* lines 225-240: the temperature adjustment
activityTempAdj(temp) ==
    IF temp >= 50 /\ temp <= 75 THEN 15
    ELSE IF temp >= 40 /\ temp < 50 THEN 10
    ELSE IF temp < 40 THEN 5
    ELSE IF temp > 85 THEN -10
    ELSE IF temp > 75 THEN 5
    ELSE 0

\* mutant: the warm branch changes the score without a message
activityTempDetails_NoWarmMessage(temp) ==
    IF temp >= 50 /\ temp <= 75 THEN <<"Ideal temps for activity">>
    ELSE IF temp >= 40 /\ temp < 50 THEN <<"Cool - morning activity best">>
    ELSE IF temp < 40 THEN <<"Cold - check feeders">>
    ELSE IF temp > 85 THEN <<"Hot - early morning only">>
    ELSE <<>>

\* lines 225-240: the message pushed with the temperature adjustment
activityTempDetails(temp) ==
    IF temp >= 50 /\ temp <= 75 THEN <<"Ideal temps for activity">>
    ELSE IF temp >= 40 /\ temp < 50 THEN <<"Cool - morning activity best">>
    ELSE IF temp < 40 THEN <<"Cold - check feeders">>
    ELSE IF temp > 85 THEN <<"Hot - early morning only">>
    ELSE IF temp > 75 THEN <<"Warm - avoid midday">>
    ELSE <<>>

\* hour = 7 when omitted; calculateBirdingConditions always passes it
scoreSongbirdActivity(temp, weatherCode, windSpeed, hour) ==
    LET isDawn == hour >= 5 /\ hour < 9
        isDusk == hour >= 17 /\ hour < 20
        isMidday == hour >= 12 /\ hour < 15
        s0 == 40
        s1 == IF isDawn THEN s0 + 15
              ELSE IF isDusk THEN s0 + 10
              ELSE IF isMidday THEN s0 - 10
              ELSE s0
        d1 == IF isDawn THEN <<"Dawn chorus - peak activity">>
              ELSE IF isDusk THEN <<"Evening activity">>
              ELSE IF isMidday THEN <<"Midday lull">>
              ELSE <<>>
        s2 == IF weatherCode <= 2 THEN s1 + 25
              ELSE IF weatherCode = 3 THEN s1 + 20
              ELSE IF weatherCode >= 45 /\ weatherCode < 50 THEN s1 + 10
              ELSE IF weatherCode >= 50 /\ weatherCode < 80 THEN s1 - 5
              ELSE IF weatherCode >= 80 THEN s1 - 15
              ELSE s1
        d2 == IF weatherCode <= 2 THEN <<"Clear skies - birds active">>
              ELSE IF weatherCode = 3 THEN <<"Overcast - extended activity">>
              ELSE IF weatherCode >= 45 /\ weatherCode < 50 THEN <<"Foggy - check sheltered areas">>
              ELSE IF weatherCode >= 50 /\ weatherCode < 80 THEN <<"Light precip - reduced activity">>
              ELSE IF weatherCode >= 80 THEN <<"Heavy precip - birds sheltering">>
              ELSE <<>>
        s3 == s2 + activityTempAdj(temp)
        d3 == activityTempDetails(temp)
        s4 == IF windSpeed < 8 THEN s3 + 15
              ELSE IF windSpeed < 15 THEN s3 + 10
              ELSE IF windSpeed > 25 THEN s3 - 15
              ELSE IF windSpeed > 18 THEN s3 - 5
              ELSE s3
        d4 == IF windSpeed < 8 THEN <<"Calm winds - easy spotting">>
              ELSE IF windSpeed < 15 THEN <<"Light winds - good conditions">>
              ELSE IF windSpeed > 25 THEN <<"Very windy - birds hunkered down">>
              ELSE IF windSpeed > 18 THEN <<"Breezy - check sheltered spots">>
              ELSE <<>>
        score == Clamp(s4)
    IN  [score |-> score,
         rating |-> getScoreRating(score),
         details |-> d1 \o d2 \o d3 \o d4]

(***************************************************************************)
(* Shorebirds                                                              *)
(***************************************************************************)
scoreShorebirds(windDir, windSpeed, precipLast6h, visibility) ==
    LET onshore == isWindInRange(windDir, 45, 180)
        s0 == 40
        s1 == IF onshore THEN s0 + 25 ELSE s0 - 5
        d1 == IF onshore THEN <<"Onshore winds">> ELSE <<"Offshore winds">>
        s2 == IF precipLast6h > 2 THEN s1 + 15
              ELSE IF precipLast6h > 0 THEN s1 + 10
              ELSE s1
        d2 == IF precipLast6h > 2 THEN <<"Recent rain - exposed mudflats">>
              ELSE IF precipLast6h > 0 THEN <<"Light recent rain">>
              ELSE <<>>
        s3 == IF MilesGT(visibility, 8) THEN s2 + 15
              ELSE IF MilesLT(visibility, 2) THEN s2 - 10
              ELSE s2
        d3 == IF MilesGT(visibility, 8) THEN <<"Good visibility">>
              ELSE IF MilesLT(visibility, 2) THEN <<"Poor visibility">>
              ELSE <<>>
        s4 == IF windSpeed < 15 THEN s3 + 10
              ELSE IF windSpeed > 25 THEN s3 - 10
              ELSE s3
        d4 == IF windSpeed < 15 THEN <<"Calm conditions for feeding">>
              ELSE IF windSpeed > 25 THEN <<"Too windy">>
              ELSE <<>>
        score == Clamp(s4)
    IN  [score |-> score,
         rating |-> getScoreRating(score),
         details |-> d1 \o d2 \o d3 \o d4]

(***************************************************************************)
(* Waterfowl                                                               *)
(***************************************************************************)
\* mutant: winds count as too strong above 20 mph instead of above 30
waterfowlWindAdj_Strong20(windSpeed) ==
    IF windSpeed >= 10 /\ windSpeed <= 20 THEN 15
    ELSE IF windSpeed > 20 THEN -10
    ELSE IF windSpeed < 5 THEN 5
    ELSE 0

\* lines 351-360: the wind adjustment
waterfowlWindAdj(windSpeed) ==
    IF windSpeed >= 10 /\ windSpeed <= 20 THEN 15
    ELSE IF windSpeed > 30 THEN -10
    ELSE IF windSpeed < 5 THEN 5
    ELSE 0

scoreWaterfowl(temp, windSpeed, visibility, pressureTrend) ==
    LET s0 == 40
        s1 == IF temp < 35 THEN s0 + 25
              ELSE IF temp < 50 THEN s0 + 20
              ELSE IF temp > 60 THEN s0 - 10
              ELSE s0
        d1 == IF temp < 35 THEN <<"Prime waterfowl weather">>
              ELSE IF temp < 50 THEN <<"Cold temps moving ducks">>
              ELSE IF temp > 60 THEN <<"Too warm for waterfowl activity">>
              ELSE <<>>
        s2 == s1 + waterfowlWindAdj(windSpeed)
        d2 == IF windSpeed >= 10 /\ windSpeed <= 20 THEN <<"Good flight conditions">>
              ELSE IF windSpeed > 30 THEN <<"Winds too strong">>
              ELSE IF windSpeed < 5 THEN <<"Calm - birds rafting">>
              ELSE <<>>
        s3 == IF MilesGT(visibility, 8) THEN s2 + 15
              ELSE IF MilesLT(visibility, 2) THEN s2 - 5
              ELSE s2
        d3 == IF MilesGT(visibility, 8) THEN <<"Clear skies">> ELSE <<>>
        falling == pressureTrend = "falling" \/ pressureTrend = "falling-fast"
        s4 == IF falling THEN s3 + 10 ELSE s3
        d4 == IF falling THEN <<"Storm pushing birds">> ELSE <<>>
        score == Clamp(s4)
    IN  [score |-> score,
         rating |-> getScoreRating(score),
         details |-> d1 \o d2 \o d3 \o d4]

(***************************************************************************)
(* Owling                                                                  *)
(***************************************************************************)
\* mutant: the night ends at 5, leaving hour 5 in no time class
owlingTimeAdj_NightTo5(hour) ==
    LET isNight == hour >= 20 \/ hour < 5
        isTwilight == (hour >= 6 /\ hour < 10) \/ (hour >= 18 /\ hour < 20)
        isDaytime == hour >= 10 /\ hour < 18
    IN  IF isNight THEN 30
        ELSE IF isTwilight THEN 10
        ELSE IF isDaytime THEN -40
        ELSE 0

\* lines 401-414: the time-of-day adjustment
owlingTimeAdj(hour) ==
    LET isNight == hour >= 20 \/ hour < 6
        isTwilight == (hour >= 6 /\ hour < 10) \/ (hour >= 18 /\ hour < 20)
        isDaytime == hour >= 10 /\ hour < 18
    IN  IF isNight THEN 30
        ELSE IF isTwilight THEN 10
        ELSE IF isDaytime THEN -40
        ELSE 0

\* hour = 21 when omitted; calculateBirdingConditions always passes it
scoreOwling(windSpeed, temp, weatherCode, humidity, hour) ==
    LET isNight == hour >= 20 \/ hour < 6
        isTwilight == (hour >= 6 /\ hour < 10) \/ (hour >= 18 /\ hour < 20)
        isDaytime == hour >= 10 /\ hour < 18
        s0 == 45
        s1 == s0 + owlingTimeAdj(hour)
        d1 == IF isNight THEN <<"Prime owling hours">>
              ELSE IF isTwilight THEN <<"Twilight - some owl activity">>
              ELSE IF isDaytime THEN <<"Daytime - owls roosting">>
              ELSE <<>>
        s2 == IF windSpeed < 8 THEN s1 + 20
              ELSE IF windSpeed > 15 THEN s1 - 20
              ELSE s1 + 5
        d2 == IF windSpeed < 8 THEN <<"Calm winds - owls active">>
              ELSE IF windSpeed > 15 THEN <<"Too windy for owling">>
              ELSE <<>>
        s3 == IF temp >= 35 /\ temp <= 55 THEN s2 + 15
              ELSE IF temp < 25 THEN s2 - 10
              ELSE IF temp > 65 THEN s2 - 5
              ELSE s2
        d3 == IF temp >= 35 /\ temp <= 55 THEN <<"Ideal temps for owling">>
              ELSE IF temp < 25 THEN <<"Very cold - reduced activity">>
              ELSE <<>>
        s4 == IF weatherCode <= 1 THEN s3 + 20
              ELSE IF weatherCode <= 3 THEN s3 + 10
              ELSE IF weatherCode >= 50 THEN s3 - 15
              ELSE s3
        d4 == IF weatherCode <= 1 THEN <<"Clear skies">>
              ELSE IF weatherCode <= 3 THEN <<"Partly cloudy">>
              ELSE IF weatherCode >= 50 THEN <<"Precipitation - owls less active">>
              ELSE <<>>
        s5 == IF humidity < 70 THEN s4 + 10
              ELSE IF humidity > 90 THEN s4 - 5
              ELSE s4
        d5 == IF humidity < 70 THEN <<"Low humidity - good acoustics">>
              ELSE IF humidity > 90 THEN <<"High humidity">>
              ELSE <<>>
        score == Clamp(s5)
    IN  [score |-> score,
         rating |-> getScoreRating(score),
         details |-> d1 \o d2 \o d3 \o d4 \o d5]

(***************************************************************************)
(* Fallout risk                                                            *)
(***************************************************************************)
\* the riskScore accumulated by assessFalloutRisk
falloutRiskScore(visibility, humidity, precipLast6h, pressureTrend) ==
    LET r1 == IF visibility < 2000 THEN 4
              ELSE IF visibility < 5000 THEN 3
              ELSE IF visibility < 8000 THEN 1
              ELSE 0
        r2 == IF humidity > 90 THEN r1 + 3
              ELSE IF humidity > 85 THEN r1 + 2
              ELSE IF humidity > 75 THEN r1 + 1
              ELSE r1
        r3 == IF precipLast6h > 5 THEN r2 + 3
              ELSE IF precipLast6h > 0 THEN r2 + 2
              ELSE r2
        r4 == IF pressureTrend = "falling-fast" THEN r3 + 2
              ELSE IF pressureTrend = "falling" THEN r3 + 1
              ELSE r3
    IN  r4

\* mutant: the high level starts at a risk score of 8
assessFalloutRisk_High8(visibility, humidity, precipLast6h, pressureTrend) ==
    LET riskScore == falloutRiskScore(visibility, humidity, precipLast6h, pressureTrend)
    IN  IF riskScore >= 8
        THEN [level |-> "high", message |-> "Strong fallout potential - check local hotspots!"]
        ELSE IF riskScore >= 4
        THEN [level |-> "moderate", message |-> "Moderate fallout conditions - migrants may be grounded"]
        ELSE [level |-> "low", message |-> "Normal conditions - migrants likely moving through"]

assessFalloutRisk(visibility, humidity, precipLast6h, pressureTrend) ==
    LET riskScore == falloutRiskScore(visibility, humidity, precipLast6h, pressureTrend)
    IN  IF riskScore >= 7
        THEN [level |-> "high", message |-> "Strong fallout potential - check local hotspots!"]
        ELSE IF riskScore >= 4
        THEN [level |-> "moderate", message |-> "Moderate fallout conditions - migrants may be grounded"]
        ELSE [level |-> "low", message |-> "Normal conditions - migrants likely moving through"]

(***************************************************************************)
(* Pressure trend                                                          *)
(***************************************************************************)
\* milliseconds in an hour, the divisor of hoursDiff
MsPerHour == 3600000

RECURSIVE GCD(_, _)
GCD(a, b) == IF b = 0 THEN a ELSE GCD(b, a % b)

\* the exact quotient n / d (d > 0) in lowest terms
Rat(n, d) ==
    LET g == GCD(IF n < 0 THEN -n ELSE n, d)
    IN  [num |-> n \div g, den |-> d \div g]

\* exact quotients [num, den] with den > 0, compared with n / d (d > 0)
RatGE(q, n, d) == q.num * d >= n * q.den
RatLE(q, n, d) == q.num * d <= n * q.den

\* mutant: a change of exactly 2.0 or -2.0 hPa per 3 hours is not "fast"
trendOfChange_StrictFast(changePer3Hr) ==
    IF ~RatLE(changePer3Hr, 2, 1) THEN "rising-fast"
    ELSE IF RatGE(changePer3Hr, 1, 2) THEN "rising"
    ELSE IF ~RatGE(changePer3Hr, -2, 1) THEN "falling-fast"
    ELSE IF RatLE(changePer3Hr, -1, 2) THEN "falling"
    ELSE "steady"

\* lines 541-557: the classification of the change per 3 hours
trendOfChange(changePer3Hr) ==
    IF RatGE(changePer3Hr, 2, 1) THEN "rising-fast"
    ELSE IF RatGE(changePer3Hr, 1, 2) THEN "rising"
    ELSE IF RatLE(changePer3Hr, -2, 1) THEN "falling-fast"
    ELSE IF RatLE(changePer3Hr, -1, 2) THEN "falling"
    ELSE "steady"

descriptionOfTrend(trend) ==
    CASE trend = "rising-fast" -> "Rising rapidly"
      [] trend = "rising" -> "Rising"
      [] trend = "falling-fast" -> "Falling rapidly"
      [] trend = "falling" -> "Falling"
      [] OTHER -> "Steady"

\* mutant: a span of exactly one hour is rejected
spanTooShort_AtMostHour(diffMs) == diffMs <= MsPerHour

\* line 534: hoursDiff < 1, with hoursDiff = diffMs / 3600000
spanTooShort(diffMs) == diffMs < MsPerHour

analyzePressureTrend(pressureHistory) ==
    IF pressureHistory = NoHistory \/ Len(pressureHistory) < 2
    THEN [trend |-> "unknown", change |-> Rat(0, 1),
          description |-> "Insufficient data"]
    ELSE
    LET oldest == pressureHistory[1]
        newest == pressureHistory[Len(pressureHistory)]
        diffMs == newest.time - oldest.time
    IN  IF spanTooShort(diffMs)
        THEN [trend |-> "unknown", change |-> Rat(0, 1),
              description |-> "Insufficient time span"]
        ELSE
        LET totalChange == newest.pressure - oldest.pressure
            \* (totalChange / hoursDiff) * 3
            changePer3Hr == Rat(totalChange * 3 * MsPerHour, diffMs)
            trend == trendOfChange(changePer3Hr)
        IN  [trend |-> trend,
             change |-> changePer3Hr,
             description |-> descriptionOfTrend(trend),
             oldValue |-> oldest.pressure,
             newValue |-> newest.pressure]

(***************************************************************************)
(* Front passage                                                           *)
(***************************************************************************)
SliceLast_OneMore(s, n) == SubSeq(s, Max(1, Len(s) - n), Len(s))

\* Array.prototype.slice(-n)
SliceLast(s, n) == SubSeq(s, Max(1, Len(s) - n + 1), Len(s))

\* mutant: a temperature drop of exactly 5 already counts as a cold front
frontRules_ColdAt5(trend, tempChange) ==
    LET falling == trend = "falling" \/ trend = "falling-fast"
    IN  IF falling /\ tempChange <= -5
        THEN [detected |-> TRUE, type |-> "cold",
              message |-> "Cold front approaching - great conditions for hawk watching!",
              birdingImpact |-> "positive", tempChange |-> tempChange]
        ELSE IF falling /\ tempChange > 5
        THEN [detected |-> TRUE, type |-> "warm",
              message |-> "Warm front approaching - watch for fog and low clouds",
              birdingImpact |-> "mixed", tempChange |-> tempChange]
        ELSE IF trend = "rising-fast" /\ tempChange < -3
        THEN [detected |-> TRUE, type |-> "post-cold",
              message |-> "Cold front passed - clear skies, good visibility expected",
              birdingImpact |-> "positive", tempChange |-> tempChange]
        ELSE [detected |-> FALSE]

\* lines 589-622: the three rules, in order
frontRules(trend, tempChange) ==
    LET falling == trend = "falling" \/ trend = "falling-fast"
    IN  IF falling /\ tempChange < -5
        THEN [detected |-> TRUE, type |-> "cold",
              message |-> "Cold front approaching - great conditions for hawk watching!",
              birdingImpact |-> "positive", tempChange |-> tempChange]
        ELSE IF falling /\ tempChange > 5
        THEN [detected |-> TRUE, type |-> "warm",
              message |-> "Warm front approaching - watch for fog and low clouds",
              birdingImpact |-> "mixed", tempChange |-> tempChange]
        ELSE IF trend = "rising-fast" /\ tempChange < -3
        THEN [detected |-> TRUE, type |-> "post-cold",
              message |-> "Cold front passed - clear skies, good visibility expected",
              birdingImpact |-> "positive", tempChange |-> tempChange]
        ELSE [detected |-> FALSE]

detectFrontPassage(pressureHistory, tempHistory) ==
    LET pressureTrend == analyzePressureTrend(pressureHistory)
    IN  IF tempHistory = NoHistory \/ Len(tempHistory) < 2
        THEN [detected |-> FALSE]
        ELSE
        LET recentTemps == SliceLast(tempHistory, 7)
        IN  IF Len(recentTemps) < 2
            THEN [detected |-> FALSE]
            ELSE
            LET tempChange == recentTemps[Len(recentTemps)].temp - recentTemps[1].temp
            IN  frontRules(pressureTrend.trend, tempChange)

(***************************************************************************)
(* The refresh: main.js calculateBirdingConditions, with the conversions   *)
(* of utils/formatting.js.  Temperatures and speeds are whole numbers.     *)
(***************************************************************************)
\* Math.round(celsius) for 'C', Math.round((celsius * 9 / 5) + 32) otherwise;
\* Math.round(x) is floor(x + 1/2)
convertTemperature(celsius, unit) ==
    IF unit = "C" THEN celsius ELSE (18 * celsius + 325) \div 10

\* Math.round(kmh) for 'kph', Math.round(kmh * 0.621371) otherwise
convertWindSpeed(kmh, unit) ==
    IF unit = "kph" THEN kmh ELSE (kmh * 621371 + 500000) \div 1000000

\* the season of a month (0 = January)
getSeason(month) ==
    IF month >= 2 /\ month <= 4 THEN "spring"
    ELSE IF month >= 8 /\ month <= 10 THEN "fall"
    ELSE "winter"

\* the location as calculateBirdingConditions settles it: the stored answer,
\* or the answer of checkCoastalLocation when none is stored and the user's
\* position is known
coastalLocation(stored, hasPosition, coastalInfo) ==
    IF stored.isCoastalLocation = "null" /\ hasPosition
    THEN [isCoastalLocation |-> IF coastalInfo.isCoastal THEN "true" ELSE "false",
          coastType |-> coastalInfo.coastType]
    ELSE stored

\* the arguments calculateBirdingConditions passes to the scorers that take a
\* temperature, and to scoreHawkWatch
scorerArguments(current, windSpeedMph, hour, pressureTrend) ==
    [scoreHawkWatch |->
         [windDir |-> current.windDirection, windSpeed |-> windSpeedMph,
          visibility |-> current.visibility],
     scoreSongbirdActivity |->
         [temp |-> current.temperature, weatherCode |-> current.weatherCode,
          windSpeed |-> windSpeedMph, hour |-> hour],
     scoreWaterfowl |->
         [temp |-> current.temperature, windSpeed |-> windSpeedMph,
          visibility |-> current.visibility, pressureTrend |-> pressureTrend],
     scoreOwling |->
         [windSpeed |-> windSpeedMph, temp |-> current.temperature,
          weatherCode |-> current.weatherCode, humidity |-> current.humidity,
          hour |-> hour]]

\* the calls of analyzePressureTrend that detectFrontPassage makes: one, on
\* its first line, whatever the histories are
frontPassageAnalyzes(pressureHistory, tempHistory) ==
    <<[by |-> "detectFrontPassage", history |-> pressureHistory]>>

\* the store after calculateBirdingConditions(weatherData), the arguments
\* it passed to the scorers, and the calls of analyzePressureTrend made during
\* it, in order.
\* hour and month are what new Date() gives, stored is the
\* store's isCoastalLocation and coastType before the call, coastalInfo the
\* answer of checkCoastalLocation.  scoreGrasslandBirds and
\* scoreWoodlandBirds are kept as the calls made.
calculateBirdingConditions(weatherData, hour, month, stored, hasPosition, coastalInfo) ==
    LET current == weatherData.current
        pressureHistory == weatherData.pressureHistory
        tempHistory == weatherData.tempHistory
        precipLast6h == weatherData.precipLast6h
        windSpeedMph == convertWindSpeed(current.windSpeed, "mph")
        coastal == coastalLocation(stored, hasPosition, coastalInfo)
        isCoastal == coastal.isCoastalLocation = "true"
        pressure == analyzePressureTrend(pressureHistory)
        passed == scorerArguments(current, windSpeedMph, hour, pressure.trend)
        hawk == passed.scoreHawkWatch
        activity == passed.scoreSongbirdActivity
        waterfowl == passed.scoreWaterfowl
        owling == passed.scoreOwling
    IN  [store |->
            [isCoastalLocation |-> coastal.isCoastalLocation,
             coastType |-> coastal.coastType,
             pressureTrend |-> pressure,
             hawkWatchScore |->
                 scoreHawkWatch(hawk.windDir, hawk.windSpeed, hawk.visibility),
             seabirdScore |->
                 IF isCoastal
                 THEN scoreSeabirding(current.windDirection, windSpeedMph,
                                      precipLast6h, coastal.coastType)
                 ELSE Null,
             shorebirdScore |->
                 IF isCoastal
                 THEN scoreShorebirds(current.windDirection, windSpeedMph,
                                      precipLast6h, current.visibility)
                 ELSE Null,
             grasslandScore |->
                 IF isCoastal THEN Null
                 ELSE [call |-> "scoreGrasslandBirds",
                       with |-> <<windSpeedMph, current.visibility,
                                  current.temperature, current.humidity, hour>>],
             woodlandScore |->
                 IF isCoastal THEN Null
                 ELSE [call |-> "scoreWoodlandBirds",
                       with |-> <<windSpeedMph, current.weatherCode,
                                  current.temperature, current.humidity, hour>>],
             songbirdMigrationScore |->
                 scoreSongbirdMigration(current.windDirection, pressure.trend,
                                        getSeason(month)),
             songbirdActivityScore |->
                 scoreSongbirdActivity(activity.temp, activity.weatherCode,
                                       activity.windSpeed, activity.hour),
             waterfowlScore |->
                 scoreWaterfowl(waterfowl.temp, waterfowl.windSpeed,
                                waterfowl.visibility, waterfowl.pressureTrend),
             owlingScore |->
                 scoreOwling(owling.windSpeed, owling.temp, owling.weatherCode,
                             owling.humidity, owling.hour),
             falloutRisk |->
                 assessFalloutRisk(current.visibility, current.humidity,
                                   precipLast6h, pressure.trend),
             frontPassageAlert |-> detectFrontPassage(pressureHistory, tempHistory)],
         passed |-> passed,
         analyzed |-> <<[by |-> "calculateBirdingConditions", history |-> pressureHistory]>>
                      \o frontPassageAnalyzes(pressureHistory, tempHistory)]

(***************************************************************************)
(* The pressure chart: main.js renderPressureChart                         *)
(***************************************************************************)
pressureChartTrendColor_Hyphen(pressureTrend) ==
    IF pressureTrend # Null /\ pressureTrend.trend \in {"falling", "falling-fast"}
    THEN "var(--accent-orange)"
    ELSE "var(--accent-blue)"

\* the colour of the chart for the stored trend (null before the first refresh)
pressureChartTrendColor(pressureTrend) ==
    IF pressureTrend # Null /\ pressureTrend.trend \in {"falling", "falling_fast"}
    THEN "var(--accent-orange)"
    ELSE "var(--accent-blue)"

\* what renderPressureChart draws from the store: nothing without samples
renderPressureChart(state) ==
    LET history == IF state.pressureHistory = NoHistory THEN <<>>
                   ELSE state.pressureHistory
    IN  IF Len(history) = 0
        THEN [rendered |-> FALSE]
        ELSE [rendered |-> TRUE,
              trendColor |-> pressureChartTrendColor(state.pressureTrend)]

(***************************************************************************)
(* The store: state/store.js.  A listener list is a Set of callbacks in    *)
(* insertion order; a callback returns or throws.                          *)
(***************************************************************************)
PERSISTED_KEYS == {"nightModeEnabled", "ebirdApiKey", "tempUnit", "speedUnit",
                   "pressureUnit", "mapTileMode"}

\* the name under which a key is kept in localStorage: the STORAGE_KEYS entry
\* of its SCREAMING_SNAKE_CASE name, or the key itself when there is none
\* (NIGHT_MODE_ENABLED is not an entry)
storageKeyOf(key) ==
    CASE key = "ebirdApiKey" -> "birdingWeather_ebirdApiKey"
      [] key = "tempUnit" -> "birdingWeather_tempUnit"
      [] key = "speedUnit" -> "birdingWeather_speedUnit"
      [] key = "pressureUnit" -> "birdingWeather_pressureUnit"
      [] key = "mapTileMode" -> "birdingWeather_mapTileMode"
      [] OTHER -> key

\* the localStorage.setItem call of _persistToStorage
persistToStorage(key, value) ==
    [storageKey |-> storageKeyOf(key),
     item |-> IF key = "nightModeEnabled"
              THEN (IF value THEN "true" ELSE "false")
              ELSE value]

\* the calls made to the callbacks of one listener list, in order; seen is
\* the value the state holds for the key while they run
callListeners(list, via, key, newValue, oldValue, seen) ==
    [i \in 1..Len(list) |->
        [callback |-> list[i].id, via |-> via, newValue |-> newValue,
         oldValue |-> oldValue, key |-> key, seen |-> seen,
         threw |-> list[i].throws]]

\* the indices of a list up to its first throwing callback
UpToFirstThrow(list) ==
    {i \in 1..Len(list) : \A j \in 1..(i - 1) : ~list[j].throws}

notifyListeners_NoCatch(listeners, key, newValue, oldValue, seen) ==
    LET allCalls == callListeners(listeners.forKey, key, key, newValue, oldValue, seen)
                    \o callListeners(listeners.global, "*", key, newValue, oldValue, seen)
        all == listeners.forKey \o listeners.global
    IN  SubSeq(allCalls, 1, Cardinality(UpToFirstThrow(all)))

\* _notifyListeners: the listeners of the key, then the global ones, each in
\* its own try/catch
notifyListeners(listeners, key, newValue, oldValue, seen) ==
    callListeners(listeners.forKey, key, key, newValue, oldValue, seen)
    \o callListeners(listeners.global, "*", key, newValue, oldValue, seen)

StoreSet_PersistAlways(state, listeners, key, value) ==
    LET oldValue == state[key]
    IN  IF oldValue = value
        THEN [state |-> state, called |-> <<>>, setItems |-> <<>>]
        ELSE LET newState == [state EXCEPT ![key] = value]
             IN  [state |-> newState,
                  called |-> notifyListeners(listeners, key, value, oldValue,
                                             newState[key]),
                  setItems |-> <<persistToStorage(key, value)>>]

\* Store.set(key, value): the state, the listener calls and the
\* localStorage.setItem calls it leaves
StoreSet(state, listeners, key, value) ==
    LET oldValue == state[key]
    IN  IF oldValue = value
        THEN [state |-> state, called |-> <<>>, setItems |-> <<>>]
        ELSE LET newState == [state EXCEPT ![key] = value]
             IN  [state |-> newState,
                  called |-> notifyListeners(listeners, key, value, oldValue,
                                             newState[key]),
                  setItems |-> IF key \in PERSISTED_KEYS
                               THEN <<persistToStorage(key, value)>>
                               ELSE <<>>]

(***************************************************************************)
(* Inputs                                                                  *)
(***************************************************************************)
\* wind directions: the ends of every arc the scorers test, and their neighbours
WindDirs == {0, 5, 10, 11, 44, 45, 46, 70, 71, 134, 135, 136, 180, 181,
             224, 225, 249, 250, 269, 270, 271, 289, 290, 315, 349, 350,
             355, 359, 360}
\* wind speeds in mph (Math.round of the converted speed)
WindSpeeds == {0, 4, 5, 7, 8, 9, 10, 14, 15, 16, 18, 19, 20, 21, 24, 25, 26,
               30, 31, 35, 36, 60}
\* visibility in meters; 2, 5, 8 and 10 miles lie between 3218/3219,
\* 8046/8047, 12874/12875 and 16093/16094
Visibilities == {0, 1500, 1999, 2000, 3218, 3219, 4999, 5000, 7999, 8000,
                 8046, 8047, 12874, 12875, 16093, 16094, 24140}
Precipitations == {0, 1, 2, 3, 5, 6}
Temperatures == {-10, 24, 25, 34, 35, 39, 40, 49, 50, 55, 56, 60, 61, 65, 66,
                 75, 76, 85, 86, 90}
WeatherCodes == {0, 1, 2, 3, 4, 44, 45, 49, 50, 79, 80, 99}
Humidities == {40, 69, 70, 75, 76, 85, 86, 90, 91, 92, 100}
Hours == 0..23
Trends == {"rising-fast", "rising", "steady", "falling", "falling-fast",
           "unknown", "falling_fast"}
Seasons == {"spring", "fall", "winter", "summer"}
\* coast orientations; "undefined" is the omitted argument, "null" the stored
\* coastType of an inland location
Coasts == {"east", "west", "gulf", "undefined", "null"}

\* the values that decide the branches of scoreSongbirdActivity and scoreOwling
ActivityTemps == {t \in Temperatures : t \in {39, 40, 49, 50, 75, 76, 85, 86, 90}}
ActivityWinds == {w \in WindSpeeds : w \in {5, 7, 8, 14, 15, 18, 19, 25, 26}}
OwlingWinds == {w \in WindSpeeds : w \in {7, 8, 15, 16}}
OwlingTemps == {t \in Temperatures : t \in {24, 25, 34, 35, 55, 56, 65, 66}}
OwlingCodes == {c \in WeatherCodes : c \in {0, 1, 2, 3, 4, 49, 50, 99}}
OwlingHumidities == {h \in Humidities : h \in {69, 70, 90, 91}}

\* pressure samples in hPa
PressureVals == {1000, 1001, 1004}
\* the sampling period of a pressure history (45 minutes, 1 hour, 6 hours)
PressurePeriods == {2700000, 3600000, 21600000}
\* temperature samples; every difference from -6 to 6 occurs
TempVals == {50, 51, 54, 56}
\* the samples of the longer temperature histories
TempValsLong == {50, 56}
\* the sampling period of a temperature history (15 minutes, 1 hour)
TempPeriods == {900000, 3600000}

\* the pressure histories of length n, oldest sample first
PressureHistoriesOfLen(n) ==
    { [i \in 1..n |-> [time |-> (i - 1) * period, pressure |-> p[i]]] :
        p \in [1..n -> PressureVals], period \in PressurePeriods }

PressureHistories ==
    {NoHistory} \cup UNION { PressureHistoriesOfLen(n) : n \in 0..MaxHist }

\* the temperature histories of length n, oldest sample first
TempHistoriesOfLen(n) ==
    { [i \in 1..n |-> [time |-> (i - 1) * period, temp |-> t[i]]] :
        t \in [1..n -> IF n <= MaxRichHist THEN TempVals ELSE TempValsLong],
        period \in TempPeriods }

TempHistories ==
    {NoHistory} \cup UNION { TempHistoriesOfLen(n) : n \in 0..MaxTempHist }

\* the observation of a refresh, in the units of the weather API: degrees
\* Celsius (-40 C is -40 F), km/h, meters, percent
CelsiusTemps == {-40, -5, 0, 10, 20, 30}
KmhSpeeds == {0, 10, 16, 40}
CurrentObservations ==
    [temperature : CelsiusTemps, windSpeed : KmhSpeeds, windDirection : {180},
     visibility : {1500, 24140}, humidity : {40, 95}, weatherCode : {0, 61}]
\* the last hourly samples of pressure and of temperature (Celsius), which
\* transformWeatherData cuts from the same hours
HourlySeries ==
    { [pressureHistory |-> [i \in 1..2 |-> [time |-> (i - 1) * MsPerHour,
                                            pressure |-> s.p[i]]],
       tempHistory |-> [i \in 1..2 |-> [time |-> (i - 1) * MsPerHour,
                                        temp |-> s.t[i]]]] :
        s \in {[p |-> <<1004, 1001>>, t |-> <<16, 10>>],
               [p |-> <<1000, 1000>>, t |-> <<10, 10>>]} }
WeatherDatas ==
    { [current |-> c, pressureHistory |-> h.pressureHistory,
       tempHistory |-> h.tempHistory, precipLast6h |-> r] :
        c \in CurrentObservations, h \in HourlySeries, r \in {0, 3} }
\* the clock of a refresh
RefreshHours == {7, 13, 22}
RefreshMonths == {0, 3, 9}
\* the store's isCoastalLocation and coastType before a refresh
StoredCoastal == {[isCoastalLocation |-> "null", coastType |-> "null"],
                  [isCoastalLocation |-> "true", coastType |-> "west"],
                  [isCoastalLocation |-> "false", coastType |-> "null"]}
\* answers of checkCoastalLocation
CoastalInfos == {[isCoastal |-> FALSE, coastType |-> "null"],
                 [isCoastal |-> TRUE, coastType |-> "east"]}

\* the store when the chart is drawn: before the first refresh, or with the
\* history and the trend a refresh stored
ChartStores ==
    {[pressureHistory |-> <<>>, pressureTrend |-> Null]}
    \cup { [pressureHistory |-> h, pressureTrend |-> analyzePressureTrend(h)] :
             h \in PressureHistories }

\* three keys of the store: two persisted preferences and the location name
StoreStates == [tempUnit : {"F", "C"}, nightModeEnabled : BOOLEAN,
                locationName : {"Cape May", "Hawk Mountain"}]
\* callbacks: the first and the third return, the second throws
Callbacks == {[id |-> 1, throws |-> FALSE], [id |-> 2, throws |-> TRUE],
              [id |-> 3, throws |-> FALSE]}
\* the listener lists: callbacks in subscription order, none twice
MaxListeners == 2
ListenerLists ==
    UNION { {l \in [1..n -> Callbacks] : \A i, j \in 1..n : i # j => l[i] # l[j]} :
              n \in 0..MaxListeners }
\* a call of Store.set: the key and a value of its type
StoreSetCalls ==
    UNION { [state : StoreStates,
             listeners : [forKey : ListenerLists, global : ListenerLists],
             key : {k}, value : {st[k] : st \in StoreStates}] :
              k \in {"tempUnit", "nightModeEnabled", "locationName"} }

(***************************************************************************)
(* One call                                                                *)
(***************************************************************************)
Init ==
    /\ AppIdle
    /\ pc = "ready"
    /\ ret = NoResult
    /\ \/ /\ fn = "isWindInRange"
          /\ args \in [dir : WindDirs, min : WindDirs, max : WindDirs]
       \/ /\ fn = "scoreHawkWatch"
          /\ args \in [windDir : WindDirs, windSpeed : WindSpeeds,
                       visibility : Visibilities]
       \/ /\ fn = "scoreSeabirding"
          /\ args \in [windDir : WindDirs, windSpeed : WindSpeeds,
                       precipitation : Precipitations, coastOrientation : Coasts]
       \/ /\ fn = "scoreSongbirdMigration"
          /\ args \in [windDir : WindDirs, pressureTrend : Trends, season : Seasons]
       \/ /\ fn = "scoreSongbirdActivity"
          /\ args \in [temp : ActivityTemps, weatherCode : WeatherCodes,
                       windSpeed : ActivityWinds, hour : Hours]
       \/ /\ fn = "scoreShorebirds"
          /\ args \in [windDir : WindDirs, windSpeed : WindSpeeds,
                       precipLast6h : Precipitations, visibility : Visibilities]
       \/ /\ fn = "scoreWaterfowl"
          /\ args \in [temp : Temperatures, windSpeed : WindSpeeds,
                       visibility : Visibilities, pressureTrend : Trends]
       \/ /\ fn = "scoreOwling"
          /\ args \in [windSpeed : OwlingWinds, temp : OwlingTemps,
                       weatherCode : OwlingCodes, humidity : OwlingHumidities,
                       hour : Hours]
       \/ /\ fn = "assessFalloutRisk"
          /\ args \in [visibility : Visibilities, humidity : Humidities,
                       precipLast6h : Precipitations, pressureTrend : Trends]
       \/ /\ fn = "analyzePressureTrend"
          /\ args \in [pressureHistory : PressureHistories]
       \/ /\ fn = "detectFrontPassage"
          /\ args \in [pressureHistory : PressureHistories,
                       tempHistory : TempHistories]
       \/ /\ fn = "renderPressureChart"
          /\ args \in [state : ChartStores]
       \/ /\ fn = "Store.set"
          /\ args \in StoreSetCalls
       \/ /\ fn = "calculateBirdingConditions"
          /\ args \in [weatherData : WeatherDatas, hour : RefreshHours,
                       month : RefreshMonths, stored : StoredCoastal,
                       hasPosition : BOOLEAN, coastalInfo : CoastalInfos]

\* the call returns v
Return(name, v) ==
    /\ pc = "ready"
    /\ fn = name
    /\ ret' = v
    /\ pc' = "done"
    /\ UNCHANGED <<fn, args>>
    /\ UNCHANGED appVars

CallIsWindInRange ==
    Return("isWindInRange", [value |-> isWindInRange(args.dir, args.min, args.max)])

CallScoreHawkWatch ==
    Return("scoreHawkWatch",
           scoreHawkWatch(args.windDir, args.windSpeed, args.visibility))

CallScoreSeabirding ==
    Return("scoreSeabirding",
           scoreSeabirding(args.windDir, args.windSpeed, args.precipitation,
                           args.coastOrientation))

CallScoreSongbirdMigration ==
    Return("scoreSongbirdMigration",
           scoreSongbirdMigration(args.windDir, args.pressureTrend, args.season))

CallScoreSongbirdActivity ==
    Return("scoreSongbirdActivity",
           scoreSongbirdActivity(args.temp, args.weatherCode, args.windSpeed,
                                 args.hour))

CallScoreShorebirds ==
    Return("scoreShorebirds",
           scoreShorebirds(args.windDir, args.windSpeed, args.precipLast6h,
                           args.visibility))

CallScoreWaterfowl ==
    Return("scoreWaterfowl",
           scoreWaterfowl(args.temp, args.windSpeed, args.visibility,
                          args.pressureTrend))

CallScoreOwling ==
    Return("scoreOwling",
           scoreOwling(args.windSpeed, args.temp, args.weatherCode,
                       args.humidity, args.hour))

CallAssessFalloutRisk ==
    Return("assessFalloutRisk",
           assessFalloutRisk(args.visibility, args.humidity, args.precipLast6h,
                             args.pressureTrend))

CallAnalyzePressureTrend ==
    Return("analyzePressureTrend", analyzePressureTrend(args.pressureHistory))

CallDetectFrontPassage ==
    Return("detectFrontPassage",
           detectFrontPassage(args.pressureHistory, args.tempHistory))

CallRenderPressureChart ==
    Return("renderPressureChart", renderPressureChart(args.state))

CallStoreSet ==
    Return("Store.set",
           StoreSet(args.state, args.listeners, args.key, args.value))

CallCalculateBirdingConditions ==
    Return("calculateBirdingConditions",
           calculateBirdingConditions(args.weatherData, args.hour, args.month,
                                      args.stored, args.hasPosition,
                                      args.coastalInfo))

Next ==
    \/ CallIsWindInRange
    \/ CallScoreHawkWatch
    \/ CallScoreSeabirding
    \/ CallScoreSongbirdMigration
    \/ CallScoreSongbirdActivity
    \/ CallScoreShorebirds
    \/ CallScoreWaterfowl
    \/ CallScoreOwling
    \/ CallAssessFalloutRisk
    \/ CallAnalyzePressureTrend
    \/ CallDetectFrontPassage
    \/ CallRenderPressureChart
    \/ CallStoreSet
    \/ CallCalculateBirdingConditions

Spec == Init /\ [][Next]_vars

(***************************************************************************)
(* The application: main.js and modules/geolocation.js.                    *)
(*                                                                         *)
(* An action is one task of the event loop: a click, a timer tick, or the  *)
(* arrival of a network or GPS answer, run until the function waits for    *)
(* the next such answer.  An await of a promise that is already settled    *)
(* (checkCoastalLocation, calculateBirdingConditions) continues in the     *)
(* same task.  Latitudes and longitudes are tenths of a degree.            *)
(***************************************************************************)
REFRESH_INTERVAL_SECONDS == 30 * 60

CapeMay == [lat |-> 389, lon |-> -749]
Denver == [lat |-> 397, lon |-> -1050]
Locations == {CapeMay, Denver}
\* userLat and userLon before a location is known
NoLocation == Null

checkCoastalByCoordinates(lat, lon) ==
    LET isEastCoast == lon > -820 /\ lon < -660 /\ lat > 250 /\ lat < 450
        isWestCoast == lon < -1170 /\ lat > 320 /\ lat < 490
        isGulfCoast == lon > -970 /\ lon < -800 /\ lat < 310 /\ lat > 250
        isFlorida == lat > 245 /\ lat < 310 /\ lon > -876 /\ lon < -800
        isGreatLakes == lat > 410 /\ lat < 490 /\ lon > -920 /\ lon < -760
    IN  IF isGreatLakes THEN [isCoastal |-> FALSE, coastType |-> "null"]
        ELSE IF isFlorida \/ isEastCoast THEN [isCoastal |-> TRUE, coastType |-> "east"]
        ELSE IF isWestCoast THEN [isCoastal |-> TRUE, coastType |-> "west"]
        ELSE IF isGulfCoast THEN [isCoastal |-> TRUE, coastType |-> "gulf"]
        ELSE [isCoastal |-> FALSE, coastType |-> "null"]

checkCoastalLocation(loc) == checkCoastalByCoordinates(loc.lat, loc.lon)

\* getDistanceKm(a, b) < 0.1, for places that are the same or far apart
withinHundredMeters(a, b) == a = b

\* what fetchWeatherForecast answers for a place: each place has its own
\* weather, so the data in the store tell where they were fetched for
WeatherAt(loc) ==
    IF loc = CapeMay
    THEN [current |-> [temperature |-> 10, windSpeed |-> 16, windDirection |-> 180,
                       visibility |-> 24140, humidity |-> 40, weatherCode |-> 0],
          pressureHistory |-> <<[time |-> 0, pressure |-> 1004],
                                [time |-> MsPerHour, pressure |-> 1001]>>,
          tempHistory |-> <<[time |-> 0, temp |-> 16], [time |-> MsPerHour, temp |-> 10]>>,
          precipLast6h |-> 0]
    ELSE [current |-> [temperature |-> 20, windSpeed |-> 40, windDirection |-> 315,
                       visibility |-> 16094, humidity |-> 95, weatherCode |-> 61],
          pressureHistory |-> <<[time |-> 0, pressure |-> 1000],
                                [time |-> MsPerHour, pressure |-> 1000]>>,
          tempHistory |-> <<[time |-> 0, temp |-> 20], [time |-> MsPerHour, temp |-> 20]>>,
          precipLast6h |-> 3]

\* the clock when a refresh computes its scores
AppHours == {7}
AppMonths == {0, 3}

\* the score widgets: the seven gauges and the display of the migration widget
ScoreTypes == {"hawk", "seabird", "songbird-migration", "songbird-activity",
               "shorebird", "waterfowl", "owling"}
storeKeyOf(type, isCoastal) ==
    CASE type = "hawk" -> "hawkWatchScore"
      [] type = "seabird" -> IF isCoastal THEN "seabirdScore" ELSE "grasslandScore"
      [] type = "songbird-migration" -> "songbirdMigrationScore"
      [] type = "songbird-activity" -> "songbirdActivityScore"
      [] type = "shorebird" -> IF isCoastal THEN "shorebirdScore" ELSE "woodlandScore"
      [] type = "waterfowl" -> "waterfowlScore"
      [] OTHER -> "owlingScore"

renderScores_GaugeAlways(u, st) ==
    LET isCoastal == st.isCoastalLocation = "true"
        scoreData(type) == st.conditions[storeKeyOf(type, isCoastal)]
    IN  [migrationDisplay |->
             IF scoreData("songbird-migration") # Null THEN "" ELSE "none",
         gauges |-> [type \in ScoreTypes |-> scoreData(type)]]

\* renderScores: a widget without score data keeps its gauge; the migration
\* widget is also hidden
renderScores(u, st) ==
    LET isCoastal == st.isCoastalLocation = "true"
        scoreData(type) == st.conditions[storeKeyOf(type, isCoastal)]
    IN  [migrationDisplay |->
             IF scoreData("songbird-migration") # Null THEN "" ELSE "none",
         gauges |-> [type \in ScoreTypes |->
                        IF scoreData(type) # Null THEN scoreData(type)
                        ELSE u.gauges[type]]]

\* the element of a set of one element
TheOnly(S) == CHOOSE x \in S : TRUE

InflightTotal == inflight[CapeMay] + inflight[Denver]

\* loadWeatherData up to its fetch, on the store st: nothing without a
\* location, else the store is loading and a request for the location is out
BeginLoad(st) ==
    IF st.userLoc = NoLocation
    THEN /\ store' = st
         /\ UNCHANGED inflight
    ELSE /\ store' = [st EXCEPT !.isLoading = TRUE]
         /\ inflight' = [inflight EXCEPT ![st.userLoc] = @ + 1]


\* the store, the widgets and the recorded choice after loadWeatherData has
\* received the data fetched for loc: store.update, calculateBirdingConditions
\* (which classifies the store's location if no classification is stored) and
\* renderWeatherData
AfterFetch(st, u, loc, hour, month) ==
    LET data == WeatherAt(loc)
        st1 == [st EXCEPT !.currentWeather = data.current,
                          !.pressureHistory = data.pressureHistory,
                          !.isLoading = FALSE,
                          !.error = "null"]
        hasPosition == st1.userLoc # NoLocation
        coastalInfo == IF hasPosition THEN checkCoastalLocation(st1.userLoc)
                       ELSE [isCoastal |-> FALSE, coastType |-> "null"]
        \* the store once calculateBirdingConditions has returned c
        Scored(c) == [st1 EXCEPT !.isCoastalLocation = c.store.isCoastalLocation,
                                 !.coastType = c.store.coastType,
                                 !.conditions = c.store]
        Rendered(st2) ==
            [store |-> st2,
             ui |-> renderScores(u, st2),
             lastCalc |-> [userLoc |-> st2.userLoc,
                           isCoastalLocation |-> st2.isCoastalLocation,
                           coastType |-> st2.coastType,
                           season |-> getSeason(month)]]
    IN  TheOnly({ Rendered(st2) :
                    st2 \in { Scored(c) :
                                c \in {calculateBirdingConditions(
                                           data, hour, month,
                                           [isCoastalLocation |-> st1.isCoastalLocation,
                                            coastType |-> st1.coastType],
                                           hasPosition, coastalInfo)} } })

\* the store when the page has read its last location from localStorage
InitialStore(loc) ==
    [userLoc |-> loc, isCoastalLocation |-> "null", coastType |-> "null",
     currentWeather |-> Null, pressureHistory |-> <<>>, isLoading |-> FALSE,
     error |-> "null", conditions |-> Null]
InitialUi == [migrationDisplay |-> "", gauges |-> [type \in ScoreTypes |-> Null]]
TimerStopped ==
    [running |-> FALSE, countdownSeconds |-> REFRESH_INTERVAL_SECONDS,
     display |-> REFRESH_INTERVAL_SECONDS, ticksSinceRefresh |-> 0]

\* init() has its location from initializeLocation, which left the GPS
\* update running, and has called loadWeatherData
InitApp ==
    /\ CallIdle
    /\ \E loc \in Locations :
           /\ store = [InitialStore(loc) EXCEPT !.isLoading = TRUE]
           /\ inflight = [l \in Locations |-> IF l = loc THEN 1 ELSE 0]
           /\ gps = [pc |-> "waiting", lastLocation |-> loc]
    /\ geocoding = 0
    /\ ui = InitialUi
    /\ timer = TimerStopped
    /\ lastCalc = Null

\* changeLocation(lat, lon, name): the user picks a place.  With a name the
\* weather is requested at once; without one setLocation first waits for
\* reverseGeocode.
ChangeLocation(loc, named) ==
    LET st1 == [store EXCEPT !.isCoastalLocation = "null",
                             !.coastType = "null",
                             !.userLoc = loc]
    IN  /\ IF named
           THEN /\ InflightTotal < MaxInflight
                /\ BeginLoad(st1)
                /\ UNCHANGED geocoding
           ELSE /\ geocoding < MaxGeocoding
                /\ store' = st1
                /\ geocoding' = geocoding + 1
                /\ UNCHANGED inflight
        /\ UNCHANGED <<gps, ui, timer, lastCalc>>
        /\ UNCHANGED callVars

\* reverseGeocode answers a changeLocation, which goes on to loadWeatherData
GeocodeReturns ==
    /\ geocoding > 0
    /\ InflightTotal < MaxInflight
    /\ geocoding' = geocoding - 1
    /\ BeginLoad(store)
    /\ UNCHANGED <<gps, ui, timer, lastCalc>>
    /\ UNCHANGED callVars

\* fetchGpsInBackground gets its position: none or one within 100 m of the
\* last location ends it, another one becomes the store's location
GpsPosition(position) ==
    /\ gps.pc = "waiting"
    /\ IF position = NoLocation \/ withinHundredMeters(gps.lastLocation, position)
       THEN /\ gps' = [gps EXCEPT !.pc = "done"]
            /\ UNCHANGED store
       ELSE /\ gps' = [gps EXCEPT !.pc = "geocoding"]
            /\ store' = [store EXCEPT !.userLoc = position]
    /\ UNCHANGED <<inflight, geocoding, ui, timer, lastCalc>>
    /\ UNCHANGED callVars

\* reverseGeocode answers fetchGpsInBackground, which calls onLocationUpdate:
\* loadWeatherData
GpsGeocoded ==
    /\ gps.pc = "geocoding"
    /\ InflightTotal < MaxInflight
    /\ gps' = [gps EXCEPT !.pc = "done"]
    /\ BeginLoad(store)
    /\ UNCHANGED <<geocoding, ui, timer, lastCalc>>
    /\ UNCHANGED callVars

resetCountdown_Keep(t) == [t EXCEPT !.ticksSinceRefresh = 0]

\* the first statement of handleRefresh; ticksSinceRefresh counts the ticks
\* since handleRefresh last ran
resetCountdown(t) ==
    [t EXCEPT !.countdownSeconds = REFRESH_INTERVAL_SECONDS,
              !.ticksSinceRefresh = 0]

\* handleRefresh: the refresh button, or the timer at 0
HandleRefresh ==
    /\ InflightTotal < MaxInflight
    /\ timer' = resetCountdown(timer)
    /\ BeginLoad(store)
    /\ UNCHANGED <<geocoding, gps, ui, lastCalc>>
    /\ UNCHANGED callVars

\* the answer to a request for loc arrives with data
FetchReturns(loc) ==
    /\ inflight[loc] > 0
    /\ inflight' = [inflight EXCEPT ![loc] = @ - 1]
    /\ \E hour \in AppHours, month \in AppMonths :
           \E after \in {AfterFetch(store, ui, loc, hour, month)} :
               /\ store' = after.store
               /\ ui' = after.ui
               /\ lastCalc' = after.lastCalc
    /\ UNCHANGED <<geocoding, gps, timer>>
    /\ UNCHANGED callVars

\* the answer to a request for loc arrives with an error
FetchFails(loc) ==
    /\ inflight[loc] > 0
    /\ inflight' = [inflight EXCEPT ![loc] = @ - 1]
    /\ store' = [store EXCEPT !.error = "error", !.isLoading = FALSE]
    /\ UNCHANGED <<geocoding, gps, ui, timer, lastCalc>>
    /\ UNCHANGED callVars

NextApp ==
    \/ \E loc \in Locations, named \in BOOLEAN : ChangeLocation(loc, named)
    \/ GeocodeReturns
    \/ \E position \in Locations \cup {NoLocation} : GpsPosition(position)
    \/ GpsGeocoded
    \/ HandleRefresh
    \/ \E loc \in Locations : FetchReturns(loc)
    \/ \E loc \in Locations : FetchFails(loc)

SpecApp == InitApp /\ [][NextApp]_vars

(***************************************************************************)
(* The refresh timer: startRefreshTimer and its interval callback.         *)
(***************************************************************************)
\* startRefreshTimer: the countdown is full, shown, and the interval runs
startRefreshTimer(t) ==
    [running |-> TRUE, countdownSeconds |-> REFRESH_INTERVAL_SECONDS,
     display |-> REFRESH_INTERVAL_SECONDS, ticksSinceRefresh |-> 0]

\* init() has awaited its first loadWeatherData, for a saved location whose
\* GPS update found nothing new, and has called startRefreshTimer
InitTimer ==
    /\ CallIdle
    /\ \E loc \in Locations, hour \in AppHours, month \in AppMonths :
           \E after \in {AfterFetch(InitialStore(loc), InitialUi, loc, hour, month)} :
               /\ store = after.store
               /\ ui = after.ui
               /\ lastCalc = after.lastCalc
               /\ gps = [pc |-> "done", lastLocation |-> loc]
    /\ inflight = [l \in Locations |-> 0]
    /\ geocoding = 0
    /\ timer = startRefreshTimer(TimerStopped)

\* the interval callback: one second less, shown; at 0 handleRefresh
Tick ==
    /\ timer.running
    /\ LET seconds == timer.countdownSeconds - 1
           ticked == [timer EXCEPT !.countdownSeconds = seconds,
                                   !.display = seconds,
                                   !.ticksSinceRefresh = @ + 1]
       IN  IF seconds <= 0
           THEN /\ InflightTotal < MaxInflight
                /\ timer' = resetCountdown(ticked)
                /\ BeginLoad(store)
           ELSE /\ timer' = ticked
                /\ UNCHANGED <<store, inflight>>
    /\ UNCHANGED <<geocoding, gps, ui, lastCalc>>
    /\ UNCHANGED callVars

NextTimer ==
    \/ Tick
    \/ HandleRefresh
    \/ \E loc \in Locations : FetchReturns(loc)
    \/ \E loc \in Locations : FetchFails(loc)

SpecTimer == InitTimer /\ [][NextTimer]_vars

(***************************************************************************)
(* Properties                                                              *)
(***************************************************************************)
Scorers == {"scoreHawkWatch", "scoreSeabirding", "scoreSongbirdMigration",
            "scoreSongbirdActivity", "scoreShorebirds", "scoreWaterfowl",
            "scoreOwling"}

Returned(name) == pc = "done" /\ fn = name

\* a history with fewer than 2 samples, or none at all
TooFewSamples(h) == h = NoHistory \/ Len(h) < 2
\* the time between the first and the last sample of a history of 2 or more
SpanMs(h) == h[Len(h)].time - h[1].time
\* fewer than 2 samples or less than an hour between the first and the last
Insufficient(h) == TooFewSamples(h) \/ SpanMs(h) < 3600000

\* C1: every non-null scorer result has an integer score in 0..100, and its
\* rating is the bucket of that score: Excellent iff score >= 80, Good iff
\* 65 <= score < 80, Fair iff 50 <= score < 65, Poor iff 35 <= score < 50,
\* Unfavorable iff score < 35.
C1_ScoreClampedAndRated ==
    (pc = "done" /\ fn \in Scorers /\ ret # Null) =>
        /\ ret.score \in 0..100
        /\ ret.rating \in {"Excellent", "Good", "Fair", "Poor", "Unfavorable"}
        /\ (ret.rating = "Excellent") <=> (ret.score >= 80)
        /\ (ret.rating = "Good") <=> (ret.score >= 65 /\ ret.score < 80)
        /\ (ret.rating = "Fair") <=> (ret.score >= 50 /\ ret.score < 65)
        /\ (ret.rating = "Poor") <=> (ret.score >= 35 /\ ret.score < 50)
        /\ (ret.rating = "Unfavorable") <=> (ret.score < 35)

\* an owling call whose bonuses add up to 140 returns 100, Excellent
C1_Witness ==
    /\ Returned("scoreOwling")
    /\ args = [windSpeed |-> 7, temp |-> 35, weatherCode |-> 0, humidity |-> 69,
               hour |-> 22]
    /\ ret.score = 100
    /\ ret.rating = "Excellent"

\* C2: isWindInRange(direction, min, max) is min <= direction <= max when
\* min <= max, and otherwise true exactly outside the open gap between max
\* and min; for the arc 350..10 it is true for 350, 355, 0, 5, 10 and false
\* for 11, 180, 349.
C2_WindInClosedArc ==
    Returned("isWindInRange") =>
        /\ args.min <= args.max =>
               (ret.value <=> args.dir \in args.min..args.max)
        /\ args.min > args.max =>
               (ret.value <=> args.dir \notin (args.max + 1)..(args.min - 1))
        /\ (args.min = 350 /\ args.max = 10 /\ args.dir \in {350, 355, 0, 5, 10})
               => ret.value
        /\ (args.min = 350 /\ args.max = 10 /\ args.dir \in {11, 180, 349})
               => ~ret.value

\* direction 5 lies in the wrapping arc 350..10
C2_Witness ==
    /\ Returned("isWindInRange")
    /\ args = [dir |-> 5, min |-> 350, max |-> 10]
    /\ ret.value

\* C3: for a history of 2 or more samples spanning at least an hour the change
\* is (newest - oldest) / hoursSpan * 3 and the trend is rising-fast iff the
\* change >= 2.0, rising iff 0.5 <= change < 2.0, falling-fast iff
\* change <= -2.0, falling iff -2.0 < change <= -0.5, steady otherwise;
\* 1000 hPa followed 6 hours later by 1004 hPa gives a change of 2.0 and a
\* trend of rising or rising-fast.
C3_TrendOfChangePer3Hours ==
    (Returned("analyzePressureTrend") /\ ~Insufficient(args.pressureHistory)) =>
        LET h == args.pressureHistory
            \* change = x / span, in hPa per 3 hours
            x == (h[Len(h)].pressure - h[1].pressure) * 3 * 3600000
            span == SpanMs(h)
            \* the same quotient with the span in quarters of an hour
            quarters == span \div 900000
            x4 == (h[Len(h)].pressure - h[1].pressure) * 3 * 4
        IN  /\ quarters * 900000 = span
            /\ ret.change.num * quarters = x4 * ret.change.den
            /\ (ret.trend = "rising-fast") <=> (x >= 2 * span)
            /\ (ret.trend = "rising") <=> (2 * x >= span /\ x < 2 * span)
            /\ (ret.trend = "falling-fast") <=> (x <= -2 * span)
            /\ (ret.trend = "falling") <=> (2 * x <= -span /\ x > -2 * span)
            /\ (ret.trend = "steady") <=> (2 * x < span /\ 2 * x > -span)
            /\ h = <<[time |-> 0, pressure |-> 1000],
                     [time |-> 21600000, pressure |-> 1004]>>
                   => /\ ret.trend \in {"rising", "rising-fast"}
                      /\ ret.change.num = 2 * ret.change.den

\* 1000 hPa, then 1004 hPa six hours later: exactly 2.0 hPa per 3 hours
C3_Witness ==
    /\ Returned("analyzePressureTrend")
    /\ args.pressureHistory = <<[time |-> 0, pressure |-> 1000],
                                [time |-> 21600000, pressure |-> 1004]>>
    /\ ret.trend = "rising-fast"

\* C4: scoreSongbirdMigration returns null exactly when the season is neither
\* spring nor fall; in winter it returns null for every wind direction and
\* every pressure trend.
C4_MigrationNullOutOfSeason ==
    Returned("scoreSongbirdMigration") =>
        /\ (ret = Null) <=> (args.season \notin {"spring", "fall"})
        /\ args.season = "winter" => ret = Null

\* winter, with the wind and the trend that score best in fall
C4_Witness ==
    /\ Returned("scoreSongbirdMigration")
    /\ args = [windDir |-> 315, pressureTrend |-> "rising-fast", season |-> "winter"]
    /\ ret = Null

\* C5: analyzePressureTrend returns the trend "unknown" when the history is
\* missing, has fewer than 2 samples or spans less than an hour, and one of
\* the five real trends otherwise; a span of exactly one hour is classified.
C5_UnknownOnInsufficientHistory ==
    Returned("analyzePressureTrend") =>
        LET h == args.pressureHistory
        IN  /\ Insufficient(h) => ret.trend = "unknown"
            /\ ~Insufficient(h) =>
                   ret.trend \in {"rising-fast", "rising", "steady", "falling",
                                  "falling-fast"}
            /\ (~TooFewSamples(h) /\ SpanMs(h) = 3600000) => ret.trend # "unknown"

\* 4 hPa in 45 minutes: too short a span to report the rise
C5_Witness ==
    /\ Returned("analyzePressureTrend")
    /\ args.pressureHistory = <<[time |-> 0, pressure |-> 1000],
                                [time |-> 2700000, pressure |-> 1004]>>
    /\ ret.trend = "unknown"

\* the trend detectFrontPassage works with
PressureTrendOf(h) == analyzePressureTrend(h).trend
\* the newest temperature minus the oldest of the last 7
TempChangeOf(t) == t[Len(t)].temp - t[Max(1, Len(t) - 6)].temp

\* C6: with 2 or more temperature samples, detectFrontPassage returns the
\* first matching rule: (a) trend falling or falling-fast and tempChange < -5:
\* cold, positive; (b) trend falling or falling-fast and tempChange > 5: warm,
\* mixed; (c) trend rising-fast and tempChange < -3: post-cold, positive;
\* otherwise detected = false.  A change of exactly -6 under falling pressure
\* is a cold front; exactly -5, +5 or (rising-fast) -3 is no detection.
C6_FrontRules ==
    (Returned("detectFrontPassage") /\ ~TooFewSamples(args.tempHistory)) =>
        LET trend == PressureTrendOf(args.pressureHistory)
            falling == trend \in {"falling", "falling-fast"}
            tempChange == TempChangeOf(args.tempHistory)
            cold == falling /\ tempChange < -5
            warm == falling /\ tempChange > 5
            postCold == trend = "rising-fast" /\ tempChange < -3
        IN  /\ cold => /\ ret.detected
                       /\ ret.type = "cold"
                       /\ ret.birdingImpact = "positive"
            /\ warm => /\ ret.detected
                       /\ ret.type = "warm"
                       /\ ret.birdingImpact = "mixed"
            /\ postCold => /\ ret.detected
                           /\ ret.type = "post-cold"
                           /\ ret.birdingImpact = "positive"
            /\ ~(cold \/ warm \/ postCold) => ret = [detected |-> FALSE]
            /\ (falling /\ tempChange = -6) => (ret.detected /\ ret.type = "cold")
            /\ (falling /\ tempChange \in {-5, 5}) => ~ret.detected
            /\ (trend = "rising-fast" /\ tempChange = -3) => ~ret.detected

\* eight temperature samples, the oldest outside the window of 7: the drop of
\* 6 is measured from the second sample, under falling pressure
C6_Witness ==
    /\ Returned("detectFrontPassage")
    /\ ~TooFewSamples(args.tempHistory)
    /\ Len(args.tempHistory) = 8
    /\ args.tempHistory[1].temp = 50
    /\ args.tempHistory[2].temp = 56
    /\ args.tempHistory[8].temp = 50
    /\ PressureTrendOf(args.pressureHistory) = "falling"
    /\ ret.detected
    /\ ret.type = "cold"
    /\ ret.birdingImpact = "positive"
    /\ ret.tempChange = -6

\* C7: detectFrontPassage returns detected = false whenever the pressure
\* history or the temperature history has fewer than 2 samples or spans less
\* than an hour.
C7_NoFrontOnInsufficientHistory ==
    (Returned("detectFrontPassage")
        /\ (Insufficient(args.pressureHistory) \/ Insufficient(args.tempHistory)))
    => ret.detected = FALSE

\* the factors of the fallout risk as the specification lists them
FalloutVisibility(v) == IF v < 2000 THEN 4 ELSE IF v < 5000 THEN 3
                        ELSE IF v < 8000 THEN 1 ELSE 0
FalloutHumidity(h) == IF h > 90 THEN 3 ELSE IF h > 85 THEN 2
                      ELSE IF h > 75 THEN 1 ELSE 0
FalloutPrecip(p) == IF p > 5 THEN 3 ELSE IF p > 0 THEN 2 ELSE 0
FalloutTrend(t) == IF t = "falling-fast" THEN 2 ELSE IF t = "falling" THEN 1 ELSE 0

\* C8: the fallout level is high iff the sum of the four factors is >= 7,
\* moderate iff it is 4..6, low iff it is < 4; the result carries a level and
\* a message only, no score; visibility 1500, humidity 92, precipitation 6,
\* trend falling-fast is high.
C8_FalloutLevelOfSum ==
    Returned("assessFalloutRisk") =>
        LET sum == FalloutVisibility(args.visibility) + FalloutHumidity(args.humidity)
                   + FalloutPrecip(args.precipLast6h) + FalloutTrend(args.pressureTrend)
        IN  /\ DOMAIN ret = {"level", "message"}
            /\ ret.level \in {"high", "moderate", "low"}
            /\ (ret.level = "high") <=> (sum >= 7)
            /\ (ret.level = "moderate") <=> (sum >= 4 /\ sum < 7)
            /\ (ret.level = "low") <=> (sum < 4)
            /\ args = [visibility |-> 1500, humidity |-> 92, precipLast6h |-> 6,
                       pressureTrend |-> "falling-fast"]
                   => ret.level = "high"

\* the example of the specification
C8_Witness ==
    /\ Returned("assessFalloutRisk")
    /\ args = [visibility |-> 1500, humidity |-> 92, precipLast6h |-> 6,
               pressureTrend |-> "falling-fast"]
    /\ ret.level = "high"

\* C9: with the wind from the ideal arc (290..360 or 0..45), a speed of
\* 10..25 mph and a visibility of at least 16093 m, scoreHawkWatch returns a
\* score >= 80 and the rating Excellent or Good.
C9_HawkWatchIdeal ==
    (Returned("scoreHawkWatch")
        /\ (args.windDir \in 290..360 \/ args.windDir \in 0..45)
        /\ args.windSpeed \in 10..25
        /\ args.visibility >= 16093)
    => /\ ret.score >= 80
       /\ ret.rating \in {"Excellent", "Good"}

\* north-west wind of 15 mph, visibility 16093 m
C9_Witness ==
    /\ Returned("scoreHawkWatch")
    /\ args = [windDir |-> 315, windSpeed |-> 15, visibility |-> 16093]
    /\ ret.score >= 80
    /\ ret.rating = "Excellent"

\* C10: above 85 F in a midday hour (12 <= hour < 15), scoreSongbirdActivity
\* returns a score strictly below 60 whatever the weather code and the wind.
C10_MiddayHeatBelow60 ==
    (Returned("scoreSongbirdActivity")
        /\ args.temp > 85
        /\ args.hour >= 12 /\ args.hour < 15)
    => ret.score < 60

\* 1 for a condition that holds, 0 otherwise
B(cond) == IF cond THEN 1 ELSE 0
\* the clamp to [0, 100] as the claims state it
ClampTo100(x) == IF x < 0 THEN 0 ELSE IF x > 100 THEN 100 ELSE x
\* meters / 1609.34 against a whole number of miles
AboveMiles(m, miles) == m * 100 > miles * 160934
BelowMiles(m, miles) == m * 100 < miles * 160934

\* the factors of the hawk watch score as the specification lists them
HawkD(dir) == IF dir \in 290..360 \/ dir \in 0..45 THEN 20
              ELSE IF dir >= 250 \/ dir <= 70 THEN 10
              ELSE -15
HawkS(speed) == IF speed \in 10..25 THEN 20
                ELSE IF speed >= 5 /\ speed < 10 THEN 10
                ELSE IF speed > 25 /\ speed <= 35 THEN 5
                ELSE IF speed > 35 THEN -20
                ELSE -10
HawkV(m) == IF AboveMiles(m, 10) THEN 10
            ELSE IF ~BelowMiles(m, 5) THEN 5
            ELSE IF BelowMiles(m, 2) THEN -20
            ELSE 0

SeabirdArc(coast) == CASE coast = "west" -> 225..360
                       [] coast = "gulf" -> 135..270
                       [] OTHER -> 45..180
SeabirdO(dir, coast) == IF dir \in SeabirdArc(coast) THEN 25 ELSE -10
SeabirdS(speed) == IF speed >= 25 THEN 25
                   ELSE IF speed >= 20 THEN 20
                   ELSE IF speed >= 15 THEN 15
                   ELSE IF speed >= 10 THEN 5
                   ELSE -10
SeabirdP(precip) == IF precip > 5 THEN 10 ELSE IF precip > 0 THEN 5 ELSE 0
SeabirdSpeedMessages == {"Storm-force winds excellent for pelagics",
                         "Good wind speed for seabirding",
                         "Light winds - birds likely offshore"}

MigrationW(dir, season) ==
    IF season = "spring"
    THEN (IF dir \in 135..270 THEN 20 ELSE -5)
    ELSE (IF dir >= 270 \/ dir <= 45 THEN 20 ELSE -5)
MigrationP(trend) == CASE trend = "rising-fast" -> 20
                       [] trend = "rising" -> 15
                       [] trend = "falling" -> 5
                       [] trend = "falling-fast" -> -5
                       [] OTHER -> 10
MigrationWindMessages == {"Favorable winds for migration", "Headwinds slowing migration"}
MigrationPressureMessages == {"Post-front - migrants concentrated",
                              "Rising pressure - birds moving",
                              "Pre-front conditions",
                              "Storm approaching - birds grounded",
                              "Steady conditions"}

\* C13: in spring or fall the migration score is the clamp to [0,100] of
\* 40 + W + P, with W = +20 for a favourable wind (spring 135..270, fall the
\* wrapping arc 270..45) and -5 otherwise, P = +20 rising-fast, +15 rising,
\* +5 falling, -5 falling-fast, +10 for any other trend; the details are
\* exactly the wind message followed by the pressure message.
C13_MigrationScore ==
    (Returned("scoreSongbirdMigration") /\ args.season \in {"spring", "fall"}) =>
        /\ ret.score = ClampTo100(40 + MigrationW(args.windDir, args.season)
                                  + MigrationP(args.pressureTrend))
        /\ Len(ret.details) = 2
        /\ ret.details[1] \in MigrationWindMessages
        /\ ret.details[2] \in MigrationPressureMessages
        /\ (ret.details[1] = "Favorable winds for migration")
               <=> (MigrationW(args.windDir, args.season) = 20)
        /\ (ret.details[2] = "Steady conditions")
               <=> (MigrationP(args.pressureTrend) = 10)

\* fall, north wind, unknown trend: 40 + 20 + 10
C13_Witness ==
    /\ Returned("scoreSongbirdMigration")
    /\ args = [windDir |-> 0, pressureTrend |-> "unknown", season |-> "fall"]
    /\ ret.score = 70
    /\ ret.details = <<"Favorable winds for migration", "Steady conditions">>

\* the factors of the songbird activity score as the specification lists them
ActivityT(hour) == IF hour >= 5 /\ hour < 9 THEN 15
                   ELSE IF hour >= 17 /\ hour < 20 THEN 10
                   ELSE IF hour >= 12 /\ hour < 15 THEN -10
                   ELSE 0
ActivityC(code) == IF code <= 2 THEN 25
                   ELSE IF code = 3 THEN 20
                   ELSE IF code \in 45..49 THEN 10
                   ELSE IF code \in 50..79 THEN -5
                   ELSE IF code >= 80 THEN -15
                   ELSE 0
ActivityF(temp) == IF temp >= 50 /\ temp <= 75 THEN 15
                   ELSE IF temp >= 40 /\ temp < 50 THEN 10
                   ELSE IF temp < 40 THEN 5
                   ELSE IF temp > 85 THEN -10
                   ELSE 5
ActivityW(wind) == IF wind < 8 THEN 15
                   ELSE IF wind < 15 THEN 10
                   ELSE IF wind > 25 THEN -15
                   ELSE IF wind > 18 THEN -5
                   ELSE 0

ShorebirdO(dir) == IF dir \in 45..180 THEN 25 ELSE -5
ShorebirdR(precip) == IF precip > 2 THEN 15 ELSE IF precip > 0 THEN 10 ELSE 0
ShorebirdV(m) == IF AboveMiles(m, 8) THEN 15 ELSE IF BelowMiles(m, 2) THEN -10 ELSE 0
ShorebirdW(wind) == IF wind < 15 THEN 10 ELSE IF wind > 25 THEN -10 ELSE 0

\* C15: the shorebird score is the clamp to [0,100] of 40 + O + R + V + W,
\* with O = +25 for a wind direction in 45..180 else -5, R = +15 above 2 mm,
\* +10 above 0, V = +15 above 8 miles, -10 below 2 miles, W = +10 below
\* 15 mph, -10 above 25 mph; the arc is the same for every call.
C15_ShorebirdScore ==
    Returned("scoreShorebirds") =>
        /\ DOMAIN args = {"windDir", "windSpeed", "precipLast6h", "visibility"}
        /\ ret.score = ClampTo100(40 + ShorebirdO(args.windDir)
                                  + ShorebirdR(args.precipLast6h)
                                  + ShorebirdV(args.visibility)
                                  + ShorebirdW(args.windSpeed))

\* onshore at the edge of the arc, rain, poor visibility, strong wind
C15_Witness ==
    /\ Returned("scoreShorebirds")
    /\ args = [windDir |-> 45, windSpeed |-> 26, precipLast6h |-> 3,
               visibility |-> 1500]
    /\ ret.score = 60

\* the factors of the waterfowl score as the specification lists them
WaterfowlT(temp) == IF temp < 35 THEN 25
                    ELSE IF temp < 50 THEN 20
                    ELSE IF temp > 60 THEN -10
                    ELSE 0
WaterfowlW(wind) == IF wind \in 10..20 THEN 15
                    ELSE IF wind > 30 THEN -10
                    ELSE IF wind < 5 THEN 5
                    ELSE 0
WaterfowlV(m) == IF AboveMiles(m, 8) THEN 15 ELSE IF BelowMiles(m, 2) THEN -5 ELSE 0
WaterfowlP(trend) == IF trend \in {"falling", "falling-fast"} THEN 10 ELSE 0

\* C16: the waterfowl score is the clamp to [0,100] of 40 + T + W + V + P,
\* with T = +25 below 35, +20 for 35..<50, -10 above 60; W = +15 for 10..20,
\* -10 above 30, +5 below 5; V = +15 above 8 miles, -5 below 2 miles; P = +10
\* iff the trend is falling or falling-fast.  The -5 of poor visibility adds
\* no message: every other non-zero factor adds one.
C16_WaterfowlScore ==
    Returned("scoreWaterfowl") =>
        LET T == WaterfowlT(args.temp)
            W == WaterfowlW(args.windSpeed)
            V == WaterfowlV(args.visibility)
            P == WaterfowlP(args.pressureTrend)
        IN  /\ ret.score = ClampTo100(40 + T + W + V + P)
            /\ Len(ret.details) = B(T # 0) + B(W # 0) + B(V = 15) + B(P # 0)

\* warm, gale, poor visibility, rapid fall: 40 - 10 - 10 - 5 + 10, three messages
C16_Witness ==
    /\ Returned("scoreWaterfowl")
    /\ args = [temp |-> 61, windSpeed |-> 31, visibility |-> 1500,
               pressureTrend |-> "falling-fast"]
    /\ ret.score = 25
    /\ Len(ret.details) = 3

\* the factors of the owling score as the specification lists them
OwlNight(hour) == hour >= 20 \/ hour < 6
OwlTwilight(hour) == (hour >= 6 /\ hour < 10) \/ (hour >= 18 /\ hour < 20)
OwlDaytime(hour) == hour >= 10 /\ hour < 18
OwlT(hour) == IF OwlNight(hour) THEN 30 ELSE IF OwlTwilight(hour) THEN 10 ELSE -40
OwlW(wind) == IF wind < 8 THEN 20 ELSE IF wind > 15 THEN -20 ELSE 5
OwlF(temp) == IF temp >= 35 /\ temp <= 55 THEN 15
              ELSE IF temp < 25 THEN -10
              ELSE IF temp > 65 THEN -5
              ELSE 0
OwlC(code) == IF code <= 1 THEN 20
              ELSE IF code \in {2, 3} THEN 10
              ELSE IF code >= 50 THEN -15
              ELSE 0
OwlH(humidity) == IF humidity < 70 THEN 10 ELSE IF humidity > 90 THEN -5 ELSE 0

ActivityTimeMessages == {"Dawn chorus - peak activity", "Evening activity", "Midday lull"}
ActivityWeatherMessages == {"Clear skies - birds active", "Overcast - extended activity",
                            "Foggy - check sheltered areas",
                            "Light precip - reduced activity",
                            "Heavy precip - birds sheltering"}
ActivityTempMessages == {"Ideal temps for activity", "Cool - morning activity best",
                         "Cold - check feeders", "Hot - early morning only",
                         "Warm - avoid midday"}
ActivityWindMessages == {"Calm winds - easy spotting", "Light winds - good conditions",
                         "Very windy - birds hunkered down",
                         "Breezy - check sheltered spots"}
\* the factor a message belongs to: 1 time, 2 weather, 3 temperature, 4 wind
ActivityFactorOf(m) == IF m \in ActivityTimeMessages THEN 1
                       ELSE IF m \in ActivityWeatherMessages THEN 2
                       ELSE IF m \in ActivityTempMessages THEN 3
                       ELSE IF m \in ActivityWindMessages THEN 4
                       ELSE 0

\* C18: in scoreSongbirdActivity a factor has a message in details iff its
\* adjustment is not zero, no factor has two, and the messages are in the
\* order time, weather, temperature, wind; so the length of details is the
\* number of factors with a non-zero adjustment.
C18_ActivityOneMessagePerFactor ==
    Returned("scoreSongbirdActivity") =>
        LET d == ret.details
            adj == <<ActivityT(args.hour), ActivityC(args.weatherCode),
                     ActivityF(args.temp), ActivityW(args.windSpeed)>>
        IN  /\ \A i \in 1..Len(d) : ActivityFactorOf(d[i]) \in 1..4
            /\ \A i, j \in 1..Len(d) :
                   i < j => ActivityFactorOf(d[i]) < ActivityFactorOf(d[j])
            /\ \A k \in 1..4 :
                   (adj[k] # 0) <=> (\E i \in 1..Len(d) : ActivityFactorOf(d[i]) = k)
            /\ Len(d) = B(adj[1] # 0) + B(adj[2] # 0) + B(adj[3] # 0) + B(adj[4] # 0)

\* mid-morning, code 4, 15 mph: only the temperature (76 F) changes the score
C18_Witness ==
    /\ Returned("scoreSongbirdActivity")
    /\ args = [temp |-> 76, weatherCode |-> 4, windSpeed |-> 15, hour |-> 10]
    /\ ret.score = 45
    /\ ret.details = <<"Warm - avoid midday">>

\* C20: in every refresh the temperature passed to scoreSongbirdActivity,
\* scoreWaterfowl and scoreOwling is the Fahrenheit value of the Celsius
\* temperature of the observation, as the wind speed passed to them is the
\* mph value of its km/h wind speed.
C20_ScorersGetFahrenheit ==
    Returned("calculateBirdingConditions") =>
        LET current == args.weatherData.current
            fahrenheit == convertTemperature(current.temperature, "F")
            mph == convertWindSpeed(current.windSpeed, "mph")
        IN  /\ ret.passed.scoreSongbirdActivity.windSpeed = mph
            /\ ret.passed.scoreWaterfowl.windSpeed = mph
            /\ ret.passed.scoreOwling.windSpeed = mph
            /\ ret.passed.scoreSongbirdActivity.temp = fahrenheit
            /\ ret.passed.scoreWaterfowl.temp = fahrenheit
            /\ ret.passed.scoreOwling.temp = fahrenheit

\* C22: in one refresh the pressure trend is computed exactly once, by
\* calculateBirdingConditions itself, and that result is the trend every
\* consumer of the cycle uses; no scorer or analyzer computes it again.
C22_TrendComputedOnce ==
    Returned("calculateBirdingConditions") =>
        /\ Len(ret.analyzed) = 1
        /\ ret.analyzed[1].by = "calculateBirdingConditions"
        /\ ret.passed.scoreWaterfowl.pressureTrend = ret.store.pressureTrend.trend

\* C24: analyzePressureTrend names a rapid fall "falling-fast" and never
\* "falling_fast"; the pressure chart, which tests for "falling" and
\* "falling_fast", has the falling colour for the trend "falling" and does
\* not have it for the trend "falling-fast".
C24_ChartMissesRapidFall ==
    /\ Returned("analyzePressureTrend") =>
           ret.trend \in {"rising-fast", "rising", "steady", "falling",
                          "falling-fast", "unknown"}
    /\ (Returned("renderPressureChart") /\ ret.rendered) =>
           /\ args.state.pressureTrend # Null
           /\ args.state.pressureTrend.trend # "falling_fast"
           /\ args.state.pressureTrend.trend = "falling"
                  => ret.trendColor = "var(--accent-orange)"
           /\ args.state.pressureTrend.trend = "falling-fast"
                  => ret.trendColor = "var(--accent-blue)"

\* a chart drawn while the pressure falls 3 hPa in an hour
C24_Witness ==
    /\ Returned("renderPressureChart")
    /\ args.state.pressureHistory = <<[time |-> 0, pressure |-> 1004],
                                      [time |-> 3600000, pressure |-> 1001]>>
    /\ args.state.pressureTrend.trend = "falling-fast"
    /\ ret.trendColor = "var(--accent-blue)"

\* C27 as claimed: every non-null result of the seven scorers has at least
\* one entry in details.
C27_DetailsNeverEmpty ==
    (pc = "done" /\ fn \in Scorers /\ ret # Null) => Len(ret.details) >= 1

\* C27 as amended: every non-null result of the six scorers other than
\* scoreWaterfowl has at least one entry in details; scoreWaterfowl returns
\* no entry exactly when no factor of it adds a message (temperature 50..60,
\* wind 5..<10 or >20..30, visibility at most 8 miles, trend not falling).
C27_DetailsEmptyOnlyForWaterfowl ==
    /\ (pc = "done" /\ fn \in Scorers \ {"scoreWaterfowl"} /\ ret # Null)
           => Len(ret.details) >= 1
    /\ Returned("scoreWaterfowl") =>
           ((Len(ret.details) = 0) <=>
                /\ WaterfowlT(args.temp) = 0
                /\ WaterfowlW(args.windSpeed) = 0
                /\ WaterfowlV(args.visibility) # 15
                /\ WaterfowlP(args.pressureTrend) = 0)

\* a mild day with a light breeze: waterfowl scores its baseline, no message
C27_Witness ==
    /\ Returned("scoreWaterfowl")
    /\ args = [temp |-> 55, windSpeed |-> 7, visibility |-> 8000,
               pressureTrend |-> "steady"]
    /\ ret.score = 40
    /\ ret.details = <<>>

\* C26: for every scorer that takes a wind direction (hawk watch, seabird
\* on an east, west or gulf coast, songbird migration in spring and fall,
\* shorebird) the result for direction 0 is the result for direction 360,
\* the other inputs being equal.
C26_NorthIsNorth ==
    /\ (Returned("scoreHawkWatch") /\ args.windDir = 0) =>
           ret = scoreHawkWatch(360, args.windSpeed, args.visibility)
    /\ (Returned("scoreSeabirding") /\ args.windDir = 0
            /\ args.coastOrientation \in {"east", "west", "gulf"}) =>
           ret = scoreSeabirding(360, args.windSpeed, args.precipitation,
                                 args.coastOrientation)
    /\ (Returned("scoreSongbirdMigration") /\ args.windDir = 0
            /\ args.season \in {"spring", "fall"}) =>
           ret = scoreSongbirdMigration(360, args.pressureTrend, args.season)
    /\ (Returned("scoreShorebirds") /\ args.windDir = 0) =>
           ret = scoreShorebirds(360, args.windSpeed, args.precipLast6h,
                                 args.visibility)

\* C28: the result of detectFrontPassage depends only on the first and the
\* last pressure sample and on two temperature samples, the newest and the
\* oldest of the last 7: giving another value to any other pressure sample,
\* or to any other temperature sample (also one older than the last 7),
\* leaves the result as it is.
C28_FrontReadsFourSamples ==
    (/\ Returned("detectFrontPassage")
     /\ args.pressureHistory # NoHistory
     /\ args.tempHistory # NoHistory) =>
        LET ph == args.pressureHistory
            th == args.tempHistory
            oldestRead == Max(1, Len(th) - 6)
        IN  /\ \A i \in 2..(Len(ph) - 1) : \A v \in PressureVals \ {ph[i].pressure} :
                   detectFrontPassage([ph EXCEPT ![i].pressure = v], th) = ret
            /\ \A i \in (1..(Len(th) - 1)) \ {oldestRead} : \A v \in TempValsLong \ {th[i].temp} :
                   detectFrontPassage(ph, [th EXCEPT ![i].temp = v]) = ret

\* a cold front found in 8 temperature samples, the oldest of which differs
\* from the oldest one read, and 3 pressure samples
C28_Witness ==
    /\ Returned("detectFrontPassage")
    /\ args.pressureHistory # NoHistory
    /\ args.tempHistory # NoHistory
    /\ Len(args.pressureHistory) = 3
    /\ Len(args.tempHistory) = 8
    /\ args.tempHistory[1].temp # args.tempHistory[2].temp
    /\ args.pressureHistory[2].pressure # args.pressureHistory[1].pressure
    /\ ret.detected
    /\ ret.type = "cold"

\* the number of calls made to a callback through one listener list
CallsOf(called, id, via) ==
    Cardinality({i \in 1..Len(called) :
                    called[i].callback = id /\ called[i].via = via})

\* the keys the store writes through to localStorage
PersistedPreferences == {"nightModeEnabled", "ebirdApiKey", "tempUnit",
                         "speedUnit", "pressureUnit", "mapTileMode"}

\* C29: store.set(key, value) with the value the key already has changes
\* nothing, calls no listener and writes nothing to localStorage.  With
\* another value the state holds the new value while the listeners run,
\* every listener of the key and every global listener is called exactly
\* once with (newValue, oldValue, key), also when another listener throws,
\* and localStorage is written iff the key is a persisted preference.
C29_StoreSetEffect ==
    Returned("Store.set") =>
        LET old == args.state[args.key]
            forKey == args.listeners.forKey
            global == args.listeners.global
        IN  IF args.value = old
            THEN /\ ret.state = args.state
                 /\ ret.called = <<>>
                 /\ ret.setItems = <<>>
            ELSE /\ ret.state[args.key] = args.value
                 /\ \A k \in DOMAIN args.state \ {args.key} :
                        ret.state[k] = args.state[k]
                 /\ \A i \in 1..Len(ret.called) :
                        /\ ret.called[i].seen = args.value
                        /\ ret.called[i].newValue = args.value
                        /\ ret.called[i].oldValue = old
                        /\ ret.called[i].key = args.key
                 /\ \A i \in 1..Len(forKey) :
                        CallsOf(ret.called, forKey[i].id, args.key) = 1
                 /\ \A i \in 1..Len(global) :
                        CallsOf(ret.called, global[i].id, "*") = 1
                 /\ Len(ret.called) = Len(forKey) + Len(global)
                 /\ Len(ret.setItems) <= 1
                 /\ (Len(ret.setItems) = 1) <=> (args.key \in PersistedPreferences)

\* the temperature unit changes from F to C; the first listener of the key
\* throws, the second listener and a global one are still called, and the
\* preference is written
C29_Witness ==
    /\ Returned("Store.set")
    /\ args.key = "tempUnit"
    /\ args.state.tempUnit = "F"
    /\ args.value = "C"
    /\ args.listeners.forKey = <<[id |-> 2, throws |-> TRUE], [id |-> 1, throws |-> FALSE]>>
    /\ args.listeners.global = <<[id |-> 3, throws |-> FALSE]>>
    /\ Len(ret.called) = 3
    /\ ret.called[1].threw
    /\ ret.setItems = <<[storageKey |-> "birdingWeather_tempUnit", item |-> "C"]>>

\* C21: whenever calculateBirdingConditions has chosen between the coastal
\* and the inland scorers, the classification it used is that of the
\* location which was in the store at that moment
C21_ClassificationOfStoreLocation ==
    (lastCalc # Null /\ lastCalc # NotStarted) =>
        LET info == checkCoastalLocation(lastCalc.userLoc)
        IN  /\ lastCalc.isCoastalLocation = (IF info.isCoastal THEN "true" ELSE "false")
            /\ lastCalc.coastType = info.coastType

\* no loadWeatherData is running or about to be started
NoLoadPending ==
    /\ InflightTotal = 0
    /\ geocoding = 0
    /\ gps.pc # "geocoding"

\* C23: once every loadWeatherData has completed, and the last answer was not
\* an error, currentWeather, pressureHistory and the scores in the store are
\* those of the data fetched for the store's location
C23_DataOfCurrentLocation ==
    (store # NotStarted /\ NoLoadPending /\ store.error = "null"
        /\ store.currentWeather # Null) =>
        LET data == WeatherAt(store.userLoc)
        IN  /\ store.currentWeather = data.current
            /\ store.pressureHistory = data.pressureHistory
            /\ \E hour \in AppHours, month \in AppMonths :
                   store.conditions =
                       calculateBirdingConditions(
                           data, hour, month,
                           [isCoastalLocation |-> store.isCoastalLocation,
                            coastType |-> store.coastType],
                           TRUE, checkCoastalLocation(store.userLoc)).store


\* the gauge of the migration widget, and the stored migration score
MigrationGauge == ui.gauges["songbird-migration"]
MigrationScore == store.conditions.songbirdMigrationScore

\* after a refresh the widget and the store agree: a shown widget has the
\* stored score in its gauge, a hidden one goes with a stored null; and a
\* refresh in winter stores null
MigrationWidgetAgrees ==
    lastCalc # Null =>
        /\ lastCalc.season = "winter" => MigrationScore = Null
        /\ MigrationScore = Null => ui.migrationDisplay = "none"
        /\ MigrationScore # Null =>
               ui.migrationDisplay = "" /\ MigrationGauge = MigrationScore

\* a step that ends a refresh in winter leaves the gauge as it was; the gauge
\* changes, and the widget is shown again, only in a step that stores a
\* non-null migration score and draws that score
MigrationGaugeStep ==
    /\ (lastCalc' # lastCalc /\ lastCalc'.season = "winter") =>
           MigrationGauge' = MigrationGauge
    /\ (MigrationGauge' # MigrationGauge
            \/ (ui.migrationDisplay = "none" /\ ui'.migrationDisplay = "")) =>
           /\ lastCalc'.season # "winter"
           /\ MigrationScore' # Null
           /\ MigrationGauge' = MigrationScore'

\* C25: after a refresh in winter the stored songbirdMigrationScore is null
\* and the migration widget is hidden with its gauge untouched; the widget is
\* shown again, with a gauge, only by a refresh whose score is not null; no
\* gauge is drawn for an out-of-season result
C25_WinterHidesMigrationWidget ==
    []MigrationWidgetAgrees /\ [][MigrationGaugeStep]_vars

\* a winter refresh has hidden the widget whose gauge still holds the score
\* of an earlier refresh in spring
C25_Witness ==
    /\ lastCalc # Null
    /\ lastCalc.season = "winter"
    /\ ui.migrationDisplay = "none"
    /\ MigrationGauge # Null
    /\ MigrationScore = Null

\* after every task of the running timer: the countdown is 1..R and the
\* value shown by the last tick is 0..R; a shown 0 means that tick has run
\* handleRefresh; the ticks since the last handleRefresh are those missing
\* from the countdown, fewer than R
CountdownInRange ==
    timer.running =>
        /\ timer.countdownSeconds \in 1..REFRESH_INTERVAL_SECONDS
        /\ timer.display \in 0..REFRESH_INTERVAL_SECONDS
        /\ timer.display = 0 =>
               /\ timer.countdownSeconds = REFRESH_INTERVAL_SECONDS
               /\ timer.ticksSinceRefresh = 0
        /\ timer.ticksSinceRefresh =
               REFRESH_INTERVAL_SECONDS - timer.countdownSeconds
        /\ timer.ticksSinceRefresh < REFRESH_INTERVAL_SECONDS

\* a step that runs handleRefresh after at least one tick: the countdown is
\* full again and a loadWeatherData has started
RefreshStep ==
    (timer.ticksSinceRefresh > 0 /\ timer'.ticksSinceRefresh = 0) =>
        /\ timer'.countdownSeconds = REFRESH_INTERVAL_SECONDS
        /\ inflight'[store.userLoc] = inflight[store.userLoc] + 1
        /\ store'.isLoading

\* C30: while the timer runs the countdown seen after each tick is within
\* 0..REFRESH_INTERVAL_SECONDS; the tick that brings it to 0 runs a refresh;
\* every refresh, by the timer or by the button, sets the countdown to
\* REFRESH_INTERVAL_SECONDS, so that fewer than REFRESH_INTERVAL_SECONDS ticks
\* separate a refresh from the tick that runs the next
C30_CountdownBounded ==
    []CountdownInRange /\ [][RefreshStep]_vars

\* the tick that reached 0 has run: 0 is shown, the countdown is full and the
\* refresh it started is loading
C30_Witness ==
    /\ timer.running
    /\ timer.display = 0
    /\ timer.countdownSeconds = REFRESH_INTERVAL_SECONDS
    /\ store.isLoading
    /\ InflightTotal > 0

====
